---------------------------- MODULE Spec2Model ----------------------------
(***************************************************************************)
(* A model of the reconciliation and rule-evaluation engine of the PPC     *)
(* analysis backend: the schema normalizer and the identity resolver of    *)
(* services/parser.py and the classifiers of services/optimization.py.     *)
(*                                                                         *)
(* Text is modelled as a sequence of one-character strings, so that        *)
(* str.lower(), str.strip(), str.startswith() and str.endswith() are       *)
(* computed character by character.  A missing cell (NaN) and Python's     *)
(* None are two distinguished values that are not text.                    *)
(*                                                                         *)
(* Numbers that are floats in the program are exact rationals here: a      *)
(* money or rate value is an integer number of hundredths, and every       *)
(* comparison between a quotient and a product is cross-multiplied.        *)
(***************************************************************************)
EXTENDS Integers, Sequences, FiniteSets, TLC

VARIABLES
    \* --- schema normalizer (normalize_columns on one header list) ---
    hdr_base,       \* the lower-cased, trimmed text the first header is a variant of
    df_columns,     \* the header list of the dataset handed to normalize_columns
    out_columns,    \* the header list of the dataset it returned
    norm_pc,        \* "input" before the call, "normalized" after it
    \* --- identity resolver and bulk-file processing (one session) ---
    bulk_df,        \* the session's bulk dataset: [columns, rows]
    items,          \* the recommendation records handed to enrich_with_ids
    before,         \* the records as they were when the last call started
    ret,            \* the value the last operation returned
    path,           \* how the last enrich_with_ids ended: "early", "ok", "error"
    assigned,       \* the <<index, field>> pairs the last call assigned
    bdf_columns,    \* the header list of the last operation's normalized frame
    last_op,        \* the operation that ran last
    calls,          \* the number of enrich_with_ids calls so far
    \* --- is_asin ---
    asin_value,     \* the argument of is_asin: [kind, text]
    asin_result,    \* what it returned
    asin_pc,        \* "input" or "done"
    \* --- rule engine ---
    df,             \* the performance dataset: [columns, rows], as uploaded, then processed
    config,         \* the thresholds of the classifier call
    result,         \* what the classifier returned
    previous,       \* what the earlier calls on the same dataset returned
    rule_pc,        \* "raw", "processed", then the name of the classifier that ran
    \* --- bulk-file row builders ---
    request,        \* what the export was asked for: records, or a campaign configuration
    output,         \* what it produced: the rows of the file, or the rejection
    export_pc,      \* "request", then the name of the operation that ran
    sessions,       \* the session store of the routers: key -> dataset
    \* --- cell cleaners ---
    cell_value,     \* the cell handed to a cleaner
    cell_result,    \* what the cleaner did: raised, returned None or returned a number
    cell_pc         \* "input", then the name of the cleaner that ran

normVars == <<hdr_base, df_columns, out_columns, norm_pc>>
bulkVars == <<bulk_df, items, before, ret, path, assigned, bdf_columns, last_op, calls>>
asinVars == <<asin_value, asin_result, asin_pc>>
ruleVars == <<df, config, result, previous, rule_pc>>
exportVars == <<request, output, export_pc, sessions>>
cellVars == <<cell_value, cell_result, cell_pc>>
vars == <<normVars, bulkVars, asinVars, ruleVars, exportVars, cellVars>>

(***************************************************************************)
(* Bounds of the model.                                                    *)
(***************************************************************************)
\* the longest run of blanks put before or after a generated text
MaxPad == 1
\* the most rows of a generated bulk dataset
MaxRows == 2
\* the most records handed to enrich_with_ids
MaxItems == 2
\* the most enrich_with_ids calls of one session
MaxCalls == 2
\* the most rows of a generated performance dataset
MaxPerfRows == 3
\* the most characters after the first two of a generated is_asin argument
MaxAsinBody == 9
\* the most ad groups of a generated campaign configuration
MaxAdGroups == 2

(***************************************************************************)
(* Text.                                                                   *)
(***************************************************************************)
\* pandas' missing cell; pd.isna(v) is v = NaN
NaN == <<"NaN">>
\* Python's None
None == <<"None">>

ToLower ==
    ("A" :> "a") @@ ("B" :> "b") @@ ("C" :> "c") @@ ("D" :> "d") @@ ("E" :> "e") @@
    ("F" :> "f") @@ ("G" :> "g") @@ ("H" :> "h") @@ ("I" :> "i") @@ ("J" :> "j") @@
    ("K" :> "k") @@ ("L" :> "l") @@ ("M" :> "m") @@ ("N" :> "n") @@ ("O" :> "o") @@
    ("P" :> "p") @@ ("Q" :> "q") @@ ("R" :> "r") @@ ("S" :> "s") @@ ("T" :> "t") @@
    ("U" :> "u") @@ ("V" :> "v") @@ ("W" :> "w") @@ ("X" :> "x") @@ ("Y" :> "y") @@
    ("Z" :> "z")

ToUpper ==
    [c \in {ToLower[u] : u \in DOMAIN ToLower} |-> CHOOSE u \in DOMAIN ToLower : ToLower[u] = c]

LowerChar(c) == IF c \in DOMAIN ToLower THEN ToLower[c] ELSE c

UpperChar(c) == IF c \in DOMAIN ToUpper THEN ToUpper[c] ELSE c

\* the sequence f written out as a tuple
Tuple(f) == f \o <<>>

\* str.lower()
Lower(s) == Tuple([i \in 1..Len(s) |-> LowerChar(s[i])])

\* the characters str.strip() removes
IsSpace(c) == c \in {" ", "\t", "\n", "\r"}

\* str.strip(): from the first to the last character that is no white space
Strip(s) ==
    LET lo == CHOOSE i \in 1..Len(s) :
                  ~IsSpace(s[i]) /\ \A j \in 1..(i - 1) : IsSpace(s[j])
        hi == CHOOSE i \in 1..Len(s) :
                  ~IsSpace(s[i]) /\ \A j \in (i + 1)..Len(s) : IsSpace(s[j])
    IN  IF \A i \in 1..Len(s) : IsSpace(s[i]) THEN <<>> ELSE SubSeq(s, lo, hi)

\* str.startswith(p)
StartsWith(s, p) == Len(s) >= Len(p) /\ SubSeq(s, 1, Len(p)) = p

\* str.endswith(p)
EndsWith(s, p) == Len(s) >= Len(p) /\ SubSeq(s, Len(s) - Len(p) + 1, Len(s)) = p

\* n blanks
Blanks(n) == [i \in 1..n |-> " "]

\* the text s with its first k characters, and with `title' the first letter of
\* every word, in upper case, between l leading and r trailing blanks
Variant(s, k, title, l, r) ==
    LET up(i) == i <= k \/ (title /\ (i = 1 \/ s[i - 1] = " "))
    IN  Blanks(l) \o [i \in 1..Len(s) |-> IF up(i) THEN UpperChar(s[i]) ELSE s[i]] \o Blanks(r)

\* the elements of a sequence
Range(s) == {s[i] : i \in 1..Len(s)}

\* the sequences over S of length 0..n
SeqUpTo(S, n) == UNION {[1..k -> S] : k \in 0..n}

(***************************************************************************)
(* Schema normalizer (services/parser.py).                                 *)
(***************************************************************************)
\* Column name mappings for normalization: lower-cased alias -> canonical name
COLUMN_MAPPINGS ==
    (<<"7"," ","d","a","y"," ","t","o","t","a","l"," ","s","a","l","e","s">> :> <<"S","a","l","e","s">>) @@
    (<<"7"," ","d","a","y"," ","t","o","t","a","l"," ","s","a","l","e","s"," ","(","$",")">> :> <<"S","a","l","e","s">>) @@
    (<<"t","o","t","a","l"," ","s","a","l","e","s">> :> <<"S","a","l","e","s">>) @@
    (<<"s","a","l","e","s">> :> <<"S","a","l","e","s">>) @@
    (<<"t","o","t","a","l"," ","a","d","v","e","r","t","i","s","i","n","g"," ","c","o","s","t"," ","o","f"," ","s","a","l","e","s"," ","(","a","c","o","s",")">> :> <<"A","C","O","S">>) @@
    (<<"a","c","o","s">> :> <<"A","C","O","S">>) @@
    (<<"a","d","v","e","r","t","i","s","i","n","g"," ","c","o","s","t"," ","o","f"," ","s","a","l","e","s">> :> <<"A","C","O","S">>) @@
    (<<"t","o","t","a","l"," ","r","e","t","u","r","n"," ","o","n"," ","a","d","v","e","r","t","i","s","i","n","g"," ","s","p","e","n","d"," ","(","r","o","a","s",")">> :> <<"R","O","A","S">>) @@
    (<<"r","o","a","s">> :> <<"R","O","A","S">>) @@
    (<<"r","e","t","u","r","n"," ","o","n"," ","a","d","v","e","r","t","i","s","i","n","g"," ","s","p","e","n","d">> :> <<"R","O","A","S">>) @@
    (<<"7"," ","d","a","y"," ","t","o","t","a","l"," ","o","r","d","e","r","s"," ","(","#",")">> :> <<"O","r","d","e","r","s">>) @@
    (<<"7"," ","d","a","y"," ","t","o","t","a","l"," ","o","r","d","e","r","s">> :> <<"O","r","d","e","r","s">>) @@
    (<<"o","r","d","e","r","s">> :> <<"O","r","d","e","r","s">>) @@
    (<<"7"," ","d","a","y"," ","t","o","t","a","l"," ","u","n","i","t","s"," ","(","#",")">> :> <<"U","n","i","t","s">>) @@
    (<<"7"," ","d","a","y"," ","t","o","t","a","l"," ","u","n","i","t","s">> :> <<"U","n","i","t","s">>) @@
    (<<"u","n","i","t","s">> :> <<"U","n","i","t","s">>) @@
    (<<"7"," ","d","a","y"," ","c","o","n","v","e","r","s","i","o","n"," ","r","a","t","e">> :> <<"C","o","n","v","e","r","s","i","o","n"," ","R","a","t","e">>) @@
    (<<"c","o","n","v","e","r","s","i","o","n"," ","r","a","t","e">> :> <<"C","o","n","v","e","r","s","i","o","n"," ","R","a","t","e">>) @@
    (<<"c","o","s","t"," ","p","e","r"," ","c","l","i","c","k"," ","(","c","p","c",")">> :> <<"C","P","C">>) @@
    (<<"c","p","c">> :> <<"C","P","C">>) @@
    (<<"a","v","e","r","a","g","e"," ","c","p","c">> :> <<"C","P","C">>) @@
    (<<"c","l","i","c","k","-","t","h","r","u"," ","r","a","t","e"," ","(","c","t","r",")">> :> <<"C","T","R">>) @@
    (<<"c","l","i","c","k","-","t","h","r","o","u","g","h"," ","r","a","t","e">> :> <<"C","T","R">>) @@
    (<<"c","t","r">> :> <<"C","T","R">>) @@
    (<<"p","o","r","t","f","o","l","i","o"," ","n","a","m","e">> :> <<"P","o","r","t","f","o","l","i","o">>) @@
    (<<"p","o","r","t","f","o","l","i","o">> :> <<"P","o","r","t","f","o","l","i","o">>) @@
    (<<"p","o","r","t","f","o","l","i","o"," ","i","d">> :> <<"P","o","r","t","f","o","l","i","o"," ","I","D">>) @@
    (<<"c","a","m","p","a","i","g","n"," ","n","a","m","e">> :> <<"C","a","m","p","a","i","g","n"," ","N","a","m","e">>) @@
    (<<"c","a","m","p","a","i","g","n">> :> <<"C","a","m","p","a","i","g","n"," ","N","a","m","e">>) @@
    (<<"a","d"," ","g","r","o","u","p"," ","n","a","m","e">> :> <<"A","d"," ","G","r","o","u","p"," ","N","a","m","e">>) @@
    (<<"c","a","m","p","a","i","g","n"," ","i","d">> :> <<"C","a","m","p","a","i","g","n"," ","I","D">>) @@
    (<<"a","d"," ","g","r","o","u","p"," ","i","d">> :> <<"A","d"," ","G","r","o","u","p"," ","I","D">>) @@
    (<<"k","e","y","w","o","r","d"," ","t","e","x","t">> :> <<"K","e","y","w","o","r","d"," ","T","e","x","t">>) @@
    (<<"m","a","t","c","h"," ","t","y","p","e">> :> <<"M","a","t","c","h"," ","T","y","p","e">>) @@
    (<<"r","e","c","o","r","d"," ","t","y","p","e">> :> <<"R","e","c","o","r","d"," ","T","y","p","e">>) @@
    (<<"e","n","t","i","t","y">> :> <<"R","e","c","o","r","d"," ","T","y","p","e">>) @@
    (<<"p","r","o","d","u","c","t"," ","t","a","r","g","e","t","i","n","g"," ","e","x","p","r","e","s","s","i","o","n">> :> <<"P","r","o","d","u","c","t"," ","T","a","r","g","e","t","i","n","g"," ","E","x","p","r","e","s","s","i","o","n">>)

\* the mapping as it was before 'ad group' was removed from it
COLUMN_MAPPINGS_with_ad_group ==
    COLUMN_MAPPINGS @@ (<<"a","d"," ","g","r","o","u","p">> :> <<"A","d"," ","G","r","o","u","p"," ","N","a","m","e">>)

\* the mapping if 'campaign name' gave the short header 'Campaign'
COLUMN_MAPPINGS_campaign_short ==
    (<<"c","a","m","p","a","i","g","n"," ","n","a","m","e">> :> <<"C","a","m","p","a","i","g","n">>) @@ COLUMN_MAPPINGS

\* the table normalize_columns looks a header up in
AliasTable == COLUMN_MAPPINGS

\* normalized = col.lower() (the strip forgotten)
normalized_no_strip(col) == Lower(col)

\* normalized = col.lower().strip()
normalized(col) == Strip(Lower(col))

\* normalize_columns, on the header list of the dataset
normalize_columns(columns) ==
    Tuple([i \in 1..Len(columns) |->
             LET n == normalized(columns[i])
             IN  IF n \in DOMAIN AliasTable THEN AliasTable[n] ELSE columns[i]])

\* df.rename(columns={old: new}): every header equal to old becomes new
Rename(columns, old, new) ==
    Tuple([i \in 1..Len(columns) |-> IF columns[i] = old THEN new ELSE columns[i]])

\* lower-cased, trimmed texts that are headers of real files and no alias
OtherHeaders ==
    { <<"a","d"," ","g","r","o","u","p">>, <<"d","a","i","l","y"," ","b","u","d","g","e","t">>, <<"t","a","r","g","e","t","i","n","g">>, <<"c","u","s","t","o","m","e","r"," ","s","e","a","r","c","h"," ","t","e","r","m">>,
      <<"c","a","m","p","a","i","g","n"," ","n","a","m","e"," ","(","i","n","f","o","r","m","a","t","i","o","n","a","l"," ","o","n","l","y",")">>, <<"s","p","e","n","d">>, <<"s","t","a","t","e">> }

\* the headers that follow the first one in a generated dataset
HeaderContexts ==
    { <<>>,
      << <<"A","d"," ","G","r","o","u","p">>, <<"A","d"," ","G","r","o","u","p"," ","I","D">> >>,
      << <<"A","d"," ","G","r","o","u","p">>, <<"A","d"," ","G","r","o","u","p"," ","N","a","m","e">> >>,
      << <<"C","l","i","c","k","s">>, <<" ","i","m","p","r","e","s","s","i","o","n","s"," ">> >> }

(***************************************************************************)
(* Datasets.  A dataset is [columns |-> header list, rows |-> row list],   *)
(* every row a list of cells in the order of the headers.  A cell holds    *)
(* the text str() gives for its value, or NaN.  The generated datasets     *)
(* keep their headers distinct after normalization, as the platform's      *)
(* exports do.                                                             *)
(***************************************************************************)
\* name in df.columns
HasCol(columns, name) == name \in Range(columns)

\* the position of the column called name
ColIndex(columns, name) ==
    CHOOSE i \in 1..Len(columns) :
        columns[i] = name /\ \A j \in 1..(i - 1) : columns[j] # name

\* df[cols]: the rows cut down to the columns at the positions idx, in that order
Project(rows, idx) ==
    Tuple([k \in 1..Len(rows) |-> Tuple([j \in 1..Len(idx) |-> rows[k][idx[j]]])])

\* dropna(subset=...) on projected rows: the rows with no NaN at the positions in subset
DropNa(rows, subset) ==
    SelectSeq(rows, LAMBDA r : \A j \in subset : r[j] # NaN)

RECURSIVE DropDupFrom(_, _)
DropDupFrom(rows, seen) ==
    IF rows = <<>> THEN <<>>
    ELSE IF Head(rows) \in seen
         THEN DropDupFrom(Tail(rows), seen)
         ELSE <<Head(rows)>> \o DropDupFrom(Tail(rows), seen \cup {Head(rows)})

\* drop_duplicates(): the first of every run of equal rows is kept
DropDuplicates(rows) == DropDupFrom(rows, {})

\* d[k] = v on a dict
Put(d, k, v) == (k :> v) @@ d

\* the empty dict
EmptyMap == <<>>

(***************************************************************************)
(* Identity resolver: enrich_with_ids (services/parser.py).                *)
(***************************************************************************)
\* clean_id: NaN gives None; otherwise the trimmed text, one trailing ".0" removed
clean_id(val) ==
    IF val = NaN THEN None
    ELSE LET s == Strip(val)
         IN  IF EndsWith(s, <<".","0">>) THEN SubSeq(s, 1, Len(s) - 2) ELSE s

\* the frame enrich_with_ids builds its lookups from: a copy with "Entity"
\* renamed to "Record Type" when that is absent, then normalize_columns
EnrichPrepare(columns) ==
    normalize_columns(
        IF HasCol(columns, <<"E","n","t","i","t","y">>) /\ ~HasCol(columns, <<"R","e","c","o","r","d"," ","T","y","p","e">>)
        THEN Rename(columns, <<"E","n","t","i","t","y">>, <<"R","e","c","o","r","d"," ","T","y","p","e">>)
        ELSE columns)

\* str(name).lower().strip(): the key of a lookup table
NameKey(name) == Strip(Lower(name))

RECURSIVE AddToCampaignMaps(_, _, _)
\* add_to_campaign_maps: rows are <<name, id>> or <<name, id, portfolio>>;
\* maps is [cid, pid]; a later row overwrites an earlier one
AddToCampaignMaps(maps, rows, has_port) ==
    IF rows = <<>> THEN maps
    ELSE LET row == Head(rows)
             c_name == NameKey(row[1])
             cid2 == Put(maps.cid, c_name, clean_id(row[2]))
             pid2 == IF has_port /\ row[3] # NaN
                     THEN Put(maps.pid, c_name, clean_id(row[3]))
                     ELSE maps.pid
         IN  AddToCampaignMaps([cid |-> cid2, pid |-> pid2], Tail(rows), has_port)

\* the first header whose lower-cased, trimmed form is key, or None
InfoCol(bdf, key) ==
    IF \E i \in 1..Len(bdf.lowered) : bdf.lowered[i] = key
    THEN bdf.columns[CHOOSE i \in 1..Len(bdf.lowered) :
                        bdf.lowered[i] = key /\ \A j \in 1..(i - 1) : bdf.lowered[j] # key]
    ELSE None

\* one scan of add_to_campaign_maps over the frame, names taken from name_col
CampaignScan(maps, bdf, name_col) ==
    LET has_port == HasCol(bdf.columns, <<"P","o","r","t","f","o","l","i","o"," ","I","D">>)
        idx == <<ColIndex(bdf.columns, name_col), ColIndex(bdf.columns, <<"C","a","m","p","a","i","g","n"," ","I","D">>)>>
               \o (IF has_port THEN <<ColIndex(bdf.columns, <<"P","o","r","t","f","o","l","i","o"," ","I","D">>)>> ELSE <<>>)
        c_data == DropDuplicates(DropNa(Project(bdf.rows, idx), {1, 2}))
    IN  AddToCampaignMaps(maps, c_data, has_port)

\* 1. Campaign IDs & Portfolio IDs: the primary scan, then the informational one
CampaignMaps(bdf) ==
    LET m0 == [cid |-> EmptyMap, pid |-> EmptyMap]
        m1 == IF HasCol(bdf.columns, <<"C","a","m","p","a","i","g","n"," ","N","a","m","e">>) /\ HasCol(bdf.columns, <<"C","a","m","p","a","i","g","n"," ","I","D">>)
              THEN CampaignScan(m0, bdf, <<"C","a","m","p","a","i","g","n"," ","N","a","m","e">>)
              ELSE m0
        c_info_col == InfoCol(bdf, <<"c","a","m","p","a","i","g","n"," ","n","a","m","e"," ","(","i","n","f","o","r","m","a","t","i","o","n","a","l"," ","o","n","l","y",")">>)
    IN  IF c_info_col # None /\ HasCol(bdf.columns, <<"C","a","m","p","a","i","g","n"," ","I","D">>)
        THEN CampaignScan(m1, bdf, c_info_col)
        ELSE m1

\* the column the ad-group IDs would be read from if "Ad Group" were taken
\* whether or not there is an "Ad Group Name"
AgIdColAnyAdGroup(columns) ==
    IF ~HasCol(columns, <<"A","d"," ","G","r","o","u","p"," ","I","D">>) /\ HasCol(columns, <<"A","d"," ","G","r","o","u","p">>)
    THEN <<"A","d"," ","G","r","o","u","p">>
    ELSE <<"A","d"," ","G","r","o","u","p"," ","I","D">>

\* the column the ad-group IDs are read from
AgIdCol(columns) ==
    IF /\ ~HasCol(columns, <<"A","d"," ","G","r","o","u","p"," ","I","D">>)
       /\ HasCol(columns, <<"A","d"," ","G","r","o","u","p">>)
       /\ HasCol(columns, <<"A","d"," ","G","r","o","u","p"," ","N","a","m","e">>)
    THEN <<"A","d"," ","G","r","o","u","p">>
    ELSE <<"A","d"," ","G","r","o","u","p"," ","I","D">>

RECURSIVE AddToAgMap(_, _)
\* rows are <<campaign name, ad group name, id>>; a later row overwrites an earlier one
AddToAgMap(agid, rows) ==
    IF rows = <<>> THEN agid
    ELSE LET row == Head(rows)
         IN  AddToAgMap(Put(agid, <<NameKey(row[1]), NameKey(row[2])>>, clean_id(row[3])),
                        Tail(rows))

\* one scan over the frame, names taken from the columns c_col and a_col
AgScan(agid, bdf, c_col, a_col) ==
    LET idx == <<ColIndex(bdf.columns, c_col), ColIndex(bdf.columns, a_col),
                 ColIndex(bdf.columns, AgIdCol(bdf.columns))>>
    IN  AddToAgMap(agid, DropDuplicates(DropNa(Project(bdf.rows, idx), {1, 2, 3})))

\* 2. Ad Group IDs: the primary scan, then the informational one
AgMap(bdf) ==
    IF ~HasCol(bdf.columns, AgIdCol(bdf.columns)) THEN EmptyMap
    ELSE LET a1 == IF /\ HasCol(bdf.columns, <<"C","a","m","p","a","i","g","n"," ","N","a","m","e">>)
                      /\ HasCol(bdf.columns, <<"A","d"," ","G","r","o","u","p"," ","N","a","m","e">>)
                   THEN AgScan(EmptyMap, bdf, <<"C","a","m","p","a","i","g","n"," ","N","a","m","e">>, <<"A","d"," ","G","r","o","u","p"," ","N","a","m","e">>)
                   ELSE EmptyMap
             c_info_col == InfoCol(bdf, <<"c","a","m","p","a","i","g","n"," ","n","a","m","e"," ","(","i","n","f","o","r","m","a","t","i","o","n","a","l"," ","o","n","l","y",")">>)
             a_info_col == InfoCol(bdf, <<"a","d"," ","g","r","o","u","p"," ","n","a","m","e"," ","(","i","n","f","o","r","m","a","t","i","o","n","a","l"," ","o","n","l","y",")">>)
         IN  IF c_info_col # None /\ a_info_col # None
             THEN AgScan(a1, bdf, c_info_col, a_info_col)
             ELSE a1

\* the prepared frame: its headers, their lower-cased trimmed forms, its rows
PreparedFrame(bulk) ==
    LET columns == EnrichPrepare(bulk.columns)
    IN  [columns |-> columns,
         lowered |-> Tuple([i \in 1..Len(columns) |-> normalized(columns[i])]),
         rows |-> bulk.rows]

\* the three lookup tables of a bulk dataset, and the headers of the prepared frame
BuildLookups(bulk) ==
    LET bdf == PreparedFrame(bulk)
        cm == CampaignMaps(bdf)
    IN  [cid |-> cm.cid, pid |-> cm.pid, agid |-> AgMap(bdf), frame |-> bdf.columns]

\* the value a record gets when its key is in no table (a made-up identifier)
LookupOrPlaceholder(d, k) == IF k \in DOMAIN d THEN d[k] ELSE <<"U","n","k","n","o","w","n">>

\* cid = None; if c_name in cid_map: cid = cid_map[c_name]
Lookup(d, k) == IF k \in DOMAIN d THEN d[k] ELSE None

\* the ID fields the record types declare (models/schemas.py); a dict takes any key
DeclaredFields(kind) ==
    CASE kind = "dict" -> {"campaign_id", "portfolio_id", "ad_group_id"}
      [] kind = "SearchTermResult" -> {"campaign_id", "portfolio_id", "ad_group_id"}
      [] kind = "BleedingSpendItem" -> {"campaign_id", "ad_group_id"}
      [] kind = "HighACOSItem" -> {"campaign_id", "ad_group_id"}
      [] kind = "ScaleOpportunityItem" -> {"campaign_id", "ad_group_id"}

\* the assignments without `if cid:': every looked-up value is assigned
TruthyOrNone(v) == TRUE

\* `if cid:' : the value is neither None nor the empty text
Truthy(v) == v # None /\ v # <<>>

\* str(item.get(f, '')) / str(getattr(item, f, '')): a name the record lacks reads as ''
NameOf(v) == IF v = None THEN <<>> ELSE v

\* the order in which the three fields are assigned
InjectOrder == <<"campaign_id", "portfolio_id", "ad_group_id">>

RECURSIVE SetFields(_, _, _, _)
\* item[f] = v / setattr(item, f, v) for the truthy values, in order; setattr on
\* a model object that does not declare f raises, and the assignments made
\* before it stay.  Returns [item, raised, set].
SetFields(item, vals, j, set) ==
    IF j > Len(InjectOrder) THEN [item |-> item, raised |-> FALSE, set |-> set]
    ELSE LET f == InjectOrder[j]
         IN  IF ~Truthy(vals[f]) THEN SetFields(item, vals, j + 1, set)
             ELSE IF f \notin DeclaredFields(item.kind)
                  THEN [item |-> item, raised |-> TRUE, set |-> set]
                  ELSE SetFields([item EXCEPT ![f] = vals[f]], vals, j + 1, set \cup {f})

RECURSIVE InjectFrom(_, _, _, _, _)
\* the loop over the items from position i on; an exception ends it with 0
InjectFrom(its, maps, i, count, asg) ==
    IF i > Len(its)
    THEN [items |-> its, ret |-> count, path |-> "ok", assigned |-> asg, frame |-> maps.frame]
    ELSE LET item == its[i]
             c_name == NameKey(NameOf(item.campaign_name))
             a_name == NameKey(NameOf(item.ad_group_name))
             vals == [campaign_id |-> Lookup(maps.cid, c_name),
                      portfolio_id |-> Lookup(maps.pid, c_name),
                      ad_group_id |-> Lookup(maps.agid, <<c_name, a_name>>)]
             count2 == IF <<c_name, a_name>> \in DOMAIN maps.agid THEN count + 1 ELSE count
             r == SetFields(item, vals, 1, {})
             its2 == [its EXCEPT ![i] = r.item]
             asg2 == asg \cup {<<i, f>> : f \in r.set}
         IN  IF r.raised
             THEN [items |-> its2, ret |-> 0, path |-> "error", assigned |-> asg2,
                   frame |-> maps.frame]
             ELSE InjectFrom(its2, maps, i + 1, count2, asg2)

\* bulk_df.empty: no rows or no columns
IsEmptyFrame(d) == Len(d.rows) = 0 \/ Len(d.columns) = 0

\* enrich_with_ids(items, bulk_df): the records after the call, the returned
\* count, how the call ended, which fields it assigned, and the headers of the
\* frame it normalized
enrich_with_ids(its, bulk) ==
    IF IsEmptyFrame(bulk) \/ its = <<>>
    THEN [items |-> its, ret |-> 0, path |-> "early", assigned |-> {}, frame |-> <<>>]
    ELSE InjectFrom(its, BuildLookups(bulk), 1, 0, {})

(***************************************************************************)
(* Bulk-file processing: process_bulk_file (services/parser.py).           *)
(***************************************************************************)
DigitValue ==
    ("0" :> 0) @@ ("1" :> 1) @@ ("2" :> 2) @@ ("3" :> 3) @@ ("4" :> 4) @@
    ("5" :> 5) @@ ("6" :> 6) @@ ("7" :> 7) @@ ("8" :> 8) @@ ("9" :> 9)

IsDigits(s) == Len(s) > 0 /\ \A i \in 1..Len(s) : s[i] \in DOMAIN DigitValue

RECURSIVE DigitsValue(_)
DigitsValue(s) ==
    IF s = <<>> THEN 0 ELSE 10 * DigitsValue(SubSeq(s, 1, Len(s) - 1)) + DigitValue[s[Len(s)]]

\* the text s without the characters in drop: value.replace(c, '') for each c
RemoveChars(s, drop) == SelectSeq(s, LAMBDA c : c \notin drop)

\* float(s) for an unsigned text of digits with at most one point and at most
\* two decimals ("12", "12.5", "12.", ".5"), in hundredths
UnsignedFloat(s) ==
    LET dots == {i \in 1..Len(s) : s[i] = "."}
        dot == CHOOSE i \in dots : TRUE
        whole == SubSeq(s, 1, dot - 1)
        frac == SubSeq(s, dot + 1, Len(s))
        digits(t) == t = <<>> \/ IsDigits(t)
    IN  IF dots = {}
        THEN IF IsDigits(s) THEN [ok |-> TRUE, v |-> 100 * DigitsValue(s)]
             ELSE [ok |-> FALSE, v |-> 0]
        ELSE IF /\ Cardinality(dots) = 1 /\ digits(whole) /\ digits(frac)
                /\ Len(whole) + Len(frac) > 0 /\ Len(frac) <= 2
             THEN [ok |-> TRUE,
                   v |-> 100 * DigitsValue(whole)
                         + (IF Len(frac) = 1 THEN 10 * DigitsValue(frac) ELSE DigitsValue(frac))]
             ELSE [ok |-> FALSE, v |-> 0]

\* a float: a finite number of hundredths, or inf, -inf or nan
Finite(v) == [special |-> "", v |-> v]

Infinity == [special |-> "inf", v |-> 0]

MinusInfinity == [special |-> "-inf", v |-> 0]

FloatNaN == [special |-> "nan", v |-> 0]

\* -x
Negated(x) ==
    IF x.special = "inf" THEN MinusInfinity
    ELSE IF x.special = "-inf" THEN Infinity
    ELSE IF x.special = "nan" THEN FloatNaN
    ELSE Finite(0 - x.v)

\* float(s) for an unsigned text: the words float() takes in any case, or digits
UnsignedWordOrFloat(s) ==
    IF Lower(s) \in { <<"i","n","f">>, <<"i","n","f","i","n","i","t","y">> } THEN [ok |-> TRUE, x |-> Infinity]
    ELSE IF Lower(s) = <<"n","a","n">> THEN [ok |-> TRUE, x |-> FloatNaN]
    ELSE LET p == UnsignedFloat(s) IN [ok |-> p.ok, x |-> Finite(p.v)]

\* float(s): [ok, x]; ok is FALSE for a ValueError.  White space around the
\* text is ignored, one sign may lead.  Texts with an exponent, an underscore
\* or more than two decimals are not generated.
ParseFloat(s) ==
    LET t == Strip(s)
    IN  IF Len(t) > 0 /\ t[1] = "-"
        THEN LET p == UnsignedWordOrFloat(Tail(t)) IN [ok |-> p.ok, x |-> Negated(p.x)]
        ELSE IF Len(t) > 0 /\ t[1] = "+"
        THEN UnsignedWordOrFloat(Tail(t))
        ELSE UnsignedWordOrFloat(t)

\* what a cleaner did: raised an exception, returned None, or returned a float
Raised == [raised |-> TRUE, none |-> FALSE, x |-> Finite(0)]

ReturnedNone == [raised |-> FALSE, none |-> TRUE, x |-> Finite(0)]

Returned(x) == [raised |-> FALSE, none |-> FALSE, x |-> x]

\* a cell: a null (NaN, None, NaT), a number (int or float), a text, or a value
\* of another type (a datetime)
NullCell == [kind |-> "null", x |-> Finite(0), text |-> <<>>]

NumberCellValue(x) == [kind |-> "number", x |-> x, text |-> <<>>]

TextCell(s) == [kind |-> "str", x |-> Finite(0), text |-> s]

OtherCell == [kind |-> "other", x |-> Finite(0), text |-> <<>>]

\* the cell of a sheet whose cells are texts or NaN
SheetCell(value) == IF value = NaN THEN NullCell ELSE TextCell(value)

\* clean_currency(value): what the call does
clean_currency_call(value) ==
    IF value.kind = "null" THEN Returned(Finite(0))
    ELSE IF value.kind = "number" THEN Returned(value.x)
    ELSE IF value.kind = "str"
    THEN LET p == ParseFloat(Strip(RemoveChars(value.text, {"$", ","})))
         IN  IF p.ok THEN Returned(p.x) ELSE Returned(Finite(0))
    ELSE Returned(Finite(0))

\* clean_currency of a cell of a sheet, in hundredths, for cells that are
\* NaN or a text that is not an infinity or a nan: NaN and unparseable text give 0
clean_currency(value) == clean_currency_call(SheetCell(value)).x.v

\* column_map of process_bulk_file
BulkColumnMap ==
    (<<"c","a","m","p","a","i","g","n">> :> <<"C","a","m","p","a","i","g","n">>) @@
    (<<"c","a","m","p","a","i","g","n"," ","n","a","m","e">> :> <<"C","a","m","p","a","i","g","n">>) @@
    (<<"r","e","c","o","r","d"," ","t","y","p","e">> :> <<"R","e","c","o","r","d"," ","T","y","p","e">>) @@
    (<<"d","a","i","l","y"," ","b","u","d","g","e","t">> :> <<"D","a","i","l","y"," ","B","u","d","g","e","t">>) @@
    (<<"c","a","m","p","a","i","g","n"," ","d","a","i","l","y"," ","b","u","d","g","e","t">> :> <<"D","a","i","l","y"," ","B","u","d","g","e","t">>)

\* the "Entity" fallback: without a Record Type or a Daily Budget column, an
\* "Entity" column becomes "Record Type"
EntityFallback(c2) ==
    IF (~HasCol(c2, <<"R","e","c","o","r","d"," ","T","y","p","e">>) \/ ~HasCol(c2, <<"D","a","i","l","y"," ","B","u","d","g","e","t">>))
       /\ HasCol(c2, <<"E","n","t","i","t","y">>)
    THEN Rename(c2, <<"E","n","t","i","t","y">>, <<"R","e","c","o","r","d"," ","T","y","p","e">>)
    ELSE c2

\* df.rename(columns=rename_dict) with column_map, on normalized headers c1
BulkRename(c1) ==
    Tuple([i \in 1..Len(c1) |->
             IF normalized(c1[i]) \in DOMAIN BulkColumnMap
             THEN BulkColumnMap[normalized(c1[i])] ELSE c1[i]])

\* the header list of process_bulk_file's frame after its renames: normalize_columns,
\* the column_map rename and the "Entity" fallback
ProcessBulkColumns(columns) == EntityFallback(BulkRename(normalize_columns(columns)))

\* the returned row of the campaign row r
BudgetRow(cols, r) ==
    << r[ColIndex(cols, <<"C","a","m","p","a","i","g","n">>)],
       clean_currency(r[ColIndex(cols, <<"D","a","i","l","y"," ","B","u","d","g","e","t">>)]) >>
    \o (IF HasCol(cols, <<"C","a","m","p","a","i","g","n"," ","I","D">>) THEN << r[ColIndex(cols, <<"C","a","m","p","a","i","g","n"," ","I","D">>)] >> ELSE <<>>)

\* the result for the campaign rows: an empty budget table, a KeyError when a
\* wanted column is missing, or the budgets
BudgetsOf(cols, campaigns) ==
    IF campaigns = <<>>
    THEN [raised |-> FALSE, frame |-> cols,
          columns |-> << <<"C","a","m","p","a","i","g","n"," ","N","a","m","e">>, <<"D","a","i","l","y"," ","B","u","d","g","e","t">> >>, rows |-> <<>>]
    ELSE IF ~HasCol(cols, <<"C","a","m","p","a","i","g","n">>) \/ ~HasCol(cols, <<"D","a","i","l","y"," ","B","u","d","g","e","t">>)
    THEN [raised |-> TRUE, frame |-> cols, columns |-> <<>>, rows |-> <<>>]
    ELSE [raised |-> FALSE, frame |-> cols,
          columns |-> << <<"C","a","m","p","a","i","g","n"," ","N","a","m","e">>, <<"D","a","i","l","y"," ","B","u","d","g","e","t">> >>
                      \o (IF HasCol(cols, <<"C","a","m","p","a","i","g","n"," ","I","D">>) THEN << <<"C","a","m","p","a","i","g","n"," ","I","D">> >> ELSE <<>>),
          rows |-> Tuple([k \in 1..Len(campaigns) |-> BudgetRow(cols, campaigns[k])])]

\* the filter for campaign rows: by Record Type, or else by a Daily Budget that is
\* not null (a KeyError without that column)
CampaignRows(cols, rows) ==
    IF HasCol(cols, <<"R","e","c","o","r","d"," ","T","y","p","e">>)
    THEN BudgetsOf(cols, SelectSeq(rows, LAMBDA r : r[ColIndex(cols, <<"R","e","c","o","r","d"," ","T","y","p","e">>)] = <<"C","a","m","p","a","i","g","n">>))
    ELSE IF ~HasCol(cols, <<"D","a","i","l","y"," ","B","u","d","g","e","t">>)
    THEN [raised |-> TRUE, frame |-> cols, columns |-> <<>>, rows |-> <<>>]
    ELSE BudgetsOf(cols, SelectSeq(rows, LAMBDA r : r[ColIndex(cols, <<"D","a","i","l","y"," ","B","u","d","g","e","t">>)] # NaN))

\* df['Campaign'] = df['Campaign Name'] when there is no Campaign column
WithCampaignColumn(c3, rows) ==
    IF ~HasCol(c3, <<"C","a","m","p","a","i","g","n">>) /\ HasCol(c3, <<"C","a","m","p","a","i","g","n"," ","N","a","m","e">>)
    THEN CampaignRows(Append(c3, <<"C","a","m","p","a","i","g","n">>),
                      Tuple([k \in 1..Len(rows) |->
                               Append(rows[k], rows[k][ColIndex(c3, <<"C","a","m","p","a","i","g","n"," ","N","a","m","e">>)])]))
    ELSE CampaignRows(c3, rows)

\* process_bulk_file(df): [raised, frame, columns, rows]; frame is the header list
\* of the renamed working frame, columns and rows are the returned budgets
process_bulk_file(d) == WithCampaignColumn(ProcessBulkColumns(d.columns), d.rows)

(***************************************************************************)
(* The bulk datasets and the records of the model.                         *)
(***************************************************************************)
\* the rows of a bulk export, by the role of each cell
BulkRows ==
    { \* the campaign row of Camp A
      [entity |-> <<"C","a","m","p","a","i","g","n">>, cname |-> <<"C","a","m","p"," ","A">>, cid |-> <<"1","1","1">>, pid |-> NaN,
       agname |-> NaN, agid |-> NaN, budget |-> <<"$","1","0",".","0","0">>,
       cinfo |-> <<"C","a","m","p"," ","A">>, aginfo |-> NaN],
      \* its ad group AG 1, the ID read back from a float column
      [entity |-> <<"A","d"," ","G","r","o","u","p">>, cname |-> <<"C","a","m","p"," ","A">>, cid |-> <<"1","1","1">>, pid |-> NaN,
       agname |-> <<"A","G"," ","1">>, agid |-> <<"2","2","2",".","0">>, budget |-> NaN,
       cinfo |-> <<"C","a","m","p"," ","A">>, aginfo |-> <<"A","G"," ","1">>],
      \* an ad group of Camp B, which is in a portfolio
      [entity |-> <<"A","d"," ","G","r","o","u","p">>, cname |-> <<" ","c","a","m","p"," ","b">>, cid |-> <<"3","3","3">>, pid |-> <<"9",".","0">>,
       agname |-> <<"A","G"," ","1">>, agid |-> <<"4","4","4">>, budget |-> NaN,
       cinfo |-> <<"C","a","m","p"," ","B">>, aginfo |-> <<"A","G"," ","1">>],
      \* a second row for (camp a, ag 1) with other IDs
      [entity |-> <<"A","d"," ","G","r","o","u","p">>, cname |-> <<"C","A","M","P"," ","A">>, cid |-> <<"9","9","9">>, pid |-> NaN,
       agname |-> <<"a","g"," ","1"," ">>, agid |-> <<"5","5","5">>, budget |-> NaN,
       cinfo |-> <<"C","a","m","p"," ","A">>, aginfo |-> <<"A","G"," ","1">>],
      \* a row for (camp a, ag 1) whose ID cell holds a blank
      [entity |-> <<"A","d"," ","G","r","o","u","p">>, cname |-> <<"C","a","m","p"," ","A">>, cid |-> <<"1","1","1">>, pid |-> NaN,
       agname |-> <<"A","G"," ","1">>, agid |-> <<" ">>, budget |-> NaN,
       cinfo |-> <<"C","a","m","p"," ","A">>, aginfo |-> <<"A","G"," ","1">>] }

\* the header layouts of a bulk export: <<header, role of its cells>>
BulkProfiles ==
    { \* true "Ad Group ID" column
      << <<<<"E","n","t","i","t","y">>, "entity">>, <<<<"C","a","m","p","a","i","g","n"," ","I","D">>, "cid">>, <<<<"A","d"," ","G","r","o","u","p"," ","I","D">>, "agid">>,
         <<<<"P","o","r","t","f","o","l","i","o"," ","I","D">>, "pid">>, <<<<"C","a","m","p","a","i","g","n"," ","N","a","m","e">>, "cname">>,
         <<<<"A","d"," ","G","r","o","u","p"," ","N","a","m","e">>, "agname">>, <<<<"D","a","i","l","y"," ","B","u","d","g","e","t">>, "budget">> >>,
      \* the ID column is called "Ad Group", beside "Ad Group Name"
      << <<<<"E","n","t","i","t","y">>, "entity">>, <<<<"C","a","m","p","a","i","g","n"," ","I","D">>, "cid">>, <<<<"A","d"," ","G","r","o","u","p">>, "agid">>,
         <<<<"P","o","r","t","f","o","l","i","o"," ","I","D">>, "pid">>, <<<<"C","a","m","p","a","i","g","n"," ","N","a","m","e">>, "cname">>,
         <<<<"A","d"," ","G","r","o","u","p"," ","N","a","m","e">>, "agname">> >>,
      \* "Ad Group" is the name, beside a true "Ad Group ID"; other spellings
      << <<<<"R","e","c","o","r","d"," ","T","y","p","e">>, "entity">>, <<<<"c","a","m","p","a","i","g","n"," ","i","d">>, "cid">>, <<<<"A","d"," ","G","r","o","u","p"," ","I","D">>, "agid">>,
         <<<<"C","a","m","p","a","i","g","n">>, "cname">>, <<<<"A","d"," ","G","r","o","u","p">>, "agname">>,
         <<<<"C","a","m","p","a","i","g","n"," ","D","a","i","l","y"," ","B","u","d","g","e","t">>, "budget">> >>,
      \* "Ad Group" is the name and there is no ID column
      << <<<<"C","a","m","p","a","i","g","n"," ","I","D">>, "cid">>, <<<<"C","a","m","p","a","i","g","n"," ","n","a","m","e">>, "cname">>,
         <<<<"A","d"," ","G","r","o","u","p">>, "agname">> >>,
      \* the informational-only name columns beside the primary ones
      << <<<<"E","n","t","i","t","y">>, "entity">>, <<<<"C","a","m","p","a","i","g","n"," ","I","D">>, "cid">>, <<<<"A","d"," ","G","r","o","u","p"," ","I","D">>, "agid">>,
         <<<<"P","o","r","t","f","o","l","i","o"," ","I","D">>, "pid">>, <<<<"C","a","m","p","a","i","g","n"," ","N","a","m","e">>, "cname">>,
         <<<<"A","d"," ","G","r","o","u","p"," ","N","a","m","e">>, "agname">>,
         <<<<"C","a","m","p","a","i","g","n"," ","N","a","m","e"," ","(","I","n","f","o","r","m","a","t","i","o","n","a","l"," ","o","n","l","y",")">>, "cinfo">>,
         <<<<"A","d"," ","G","r","o","u","p"," ","N","a","m","e"," ","(","I","n","f","o","r","m","a","t","i","o","n","a","l"," ","o","n","l","y",")">>, "aginfo">> >> }

\* the dataset with the layout profile and the rows rs
MkFrame(profile, rs) ==
    [columns |-> Tuple([i \in 1..Len(profile) |-> profile[i][1]]),
     rows |-> Tuple([k \in 1..Len(rs) |->
                       Tuple([i \in 1..Len(profile) |-> rs[k][profile[i][2]]])])]

\* the sequences of distinct elements of S of length 0..n
DistinctSeqs(S, n) ==
    {s \in SeqUpTo(S, n) : \A i, j \in 1..Len(s) : i # j => s[i] # s[j]}

\* the recommendation records: fresh from a classifier, no ID yet; a record type
\* without an ad_group_name attribute has None there
ItemSet ==
    { [kind |-> "dict", campaign_name |-> <<"c","a","m","p"," ","a">>, ad_group_name |-> <<"a","g"," ","1">>,
       campaign_id |-> None, portfolio_id |-> None, ad_group_id |-> None],
      [kind |-> "SearchTermResult", campaign_name |-> <<"C","a","m","p"," ","B"," ">>, ad_group_name |-> <<"a","g"," ","1">>,
       campaign_id |-> None, portfolio_id |-> None, ad_group_id |-> None],
      [kind |-> "BleedingSpendItem", campaign_name |-> <<"C","A","M","P"," ","B">>, ad_group_name |-> <<" ","A","G"," ","1">>,
       campaign_id |-> None, portfolio_id |-> None, ad_group_id |-> None],
      [kind |-> "HighACOSItem", campaign_name |-> <<"C","a","m","p"," ","A">>, ad_group_name |-> None,
       campaign_id |-> None, portfolio_id |-> None, ad_group_id |-> None] }


(***************************************************************************)
(* Bulk datasets with conflicting rows: two campaigns whose names differ   *)
(* in case only, so that their rows meet under one lookup key.             *)
(***************************************************************************)
LookupRows ==
    { \* the campaign "Camp A" and its ad group AG 1
      [entity |-> <<"A","d"," ","G","r","o","u","p">>, cname |-> <<"C","a","m","p"," ","A">>, cid |-> <<"1","1","1">>, pid |-> <<"9">>,
       agname |-> <<"A","G"," ","1">>, agid |-> <<"2","2","2">>, cinfo |-> NaN, aginfo |-> NaN],
      \* the campaign "CAMP A" and its ad group AG 1
      [entity |-> <<"A","d"," ","G","r","o","u","p">>, cname |-> <<"C","A","M","P"," ","A">>, cid |-> <<"9","9","9">>, pid |-> <<"8">>,
       agname |-> <<"a","g"," ","1"," ">>, agid |-> <<"5","5","5">>, cinfo |-> NaN, aginfo |-> NaN],
      \* a keyword row of "CAMP A": only the informational-only names are filled
      [entity |-> <<"K","e","y","w","o","r","d">>, cname |-> NaN, cid |-> <<"9","9","9">>, pid |-> <<"8">>,
       agname |-> NaN, agid |-> <<"5","5","5">>, cinfo |-> <<"C","A","M","P"," ","A">>, aginfo |-> <<"A","G"," ","1">>],
      \* a keyword row of Camp B, which has no row of its own
      [entity |-> <<"K","e","y","w","o","r","d">>, cname |-> NaN, cid |-> <<"3","3","3">>, pid |-> NaN,
       agname |-> NaN, agid |-> <<"4","4","4">>, cinfo |-> <<"C","a","m","p"," ","B">>, aginfo |-> <<"A","G"," ","1">>],
      \* an ad-group row of Camp C with every name filled
      [entity |-> <<"A","d"," ","G","r","o","u","p">>, cname |-> <<"C","a","m","p"," ","C">>, cid |-> <<"7","7","7">>, pid |-> NaN,
       agname |-> <<"A","G"," ","1">>, agid |-> <<"8","8","8",".","0">>, cinfo |-> <<"C","a","m","p"," ","C">>, aginfo |-> <<"A","G"," ","1">>] }

\* the records handed to enrich_with_ids with these datasets
LookupItems == {item \in ItemSet : item.kind \in {"dict", "SearchTermResult"}}

LookupProfiles ==
    { \* the primary name columns only
      << <<<<"E","n","t","i","t","y">>, "entity">>, <<<<"C","a","m","p","a","i","g","n"," ","I","D">>, "cid">>, <<<<"A","d"," ","G","r","o","u","p"," ","I","D">>, "agid">>,
         <<<<"P","o","r","t","f","o","l","i","o"," ","I","D">>, "pid">>, <<<<"C","a","m","p","a","i","g","n"," ","N","a","m","e">>, "cname">>,
         <<<<"A","d"," ","G","r","o","u","p"," ","N","a","m","e">>, "agname">> >>,
      \* the informational-only name columns beside them
      << <<<<"E","n","t","i","t","y">>, "entity">>, <<<<"C","a","m","p","a","i","g","n"," ","I","D">>, "cid">>, <<<<"A","d"," ","G","r","o","u","p"," ","I","D">>, "agid">>,
         <<<<"P","o","r","t","f","o","l","i","o"," ","I","D">>, "pid">>, <<<<"C","a","m","p","a","i","g","n"," ","N","a","m","e">>, "cname">>,
         <<<<"A","d"," ","G","r","o","u","p"," ","N","a","m","e">>, "agname">>,
         <<<<"C","a","m","p","a","i","g","n"," ","N","a","m","e"," ","(","I","n","f","o","r","m","a","t","i","o","n","a","l"," ","o","n","l","y",")">>, "cinfo">>,
         <<<<"A","d"," ","G","r","o","u","p"," ","N","a","m","e"," ","(","I","n","f","o","r","m","a","t","i","o","n","a","l"," ","o","n","l","y",")">>, "aginfo">> >>,
      \* the ID column is called "Ad Group", beside "Ad Group Name"
      << <<<<"E","n","t","i","t","y">>, "entity">>, <<<<"C","a","m","p","a","i","g","n"," ","I","D">>, "cid">>, <<<<"A","d"," ","G","r","o","u","p">>, "agid">>,
         <<<<"C","a","m","p","a","i","g","n"," ","N","a","m","e">>, "cname">>, <<<<"A","d"," ","G","r","o","u","p"," ","N","a","m","e">>, "agname">> >>,
      \* "Ad Group" is the name, beside a true "Ad Group ID"
      << <<<<"C","a","m","p","a","i","g","n"," ","I","D">>, "cid">>, <<<<"A","d"," ","G","r","o","u","p"," ","I","D">>, "agid">>,
         <<<<"C","a","m","p","a","i","g","n"," ","N","a","m","e">>, "cname">>, <<<<"A","d"," ","G","r","o","u","p">>, "agname">>,
         <<<<"C","a","m","p","a","i","g","n"," ","N","a","m","e"," ","(","I","n","f","o","r","m","a","t","i","o","n","a","l"," ","o","n","l","y",")">>, "cinfo">>,
         <<<<"A","d"," ","G","r","o","u","p"," ","N","a","m","e"," ","(","I","n","f","o","r","m","a","t","i","o","n","a","l"," ","o","n","l","y",")">>, "aginfo">> >>,
      \* "Ad Group" is the name and there is no ID column
      << <<<<"C","a","m","p","a","i","g","n"," ","I","D">>, "cid">>, <<<<"C","a","m","p","a","i","g","n"," ","N","a","m","e">>, "cname">>,
         <<<<"A","d"," ","G","r","o","u","p">>, "agname">>,
         <<<<"C","a","m","p","a","i","g","n"," ","N","a","m","e"," ","(","I","n","f","o","r","m","a","t","i","o","n","a","l"," ","o","n","l","y",")">>, "cinfo">>,
         <<<<"A","d"," ","G","r","o","u","p"," ","N","a","m","e"," ","(","I","n","f","o","r","m","a","t","i","o","n","a","l"," ","o","n","l","y",")">>, "aginfo">> >> }
(***************************************************************************)
(* Product-ID pattern: is_asin (services/parser.py).  An argument is       *)
(* [kind, text]: kind is the name of its Python type, text its characters  *)
(* when it is a str.                                                       *)
(***************************************************************************)
\* is_asin without value.strip()
is_asin_no_strip(value) ==
    IF value.kind # "str" THEN FALSE
    ELSE StartsWith(Lower(value.text), <<"b","0">>) /\ Len(value.text) = 10

\* is_asin(value)
is_asin(value) ==
    IF value.kind # "str" THEN FALSE
    ELSE LET v == Lower(Strip(value.text))
         IN  StartsWith(v, <<"b","0">>) /\ Len(v) = 10

\* the first characters of a generated argument
AsinPrefixes == { <<"b","0">>, <<"B","0">>, <<"b","1">>, <<"a","0">>, <<"0","b">>, <<"b"," ","0">>, <<>> }

\* n characters that are neither blanks nor letters
Filler(n) == [i \in 1..n |-> "7"]

\* the arguments that are no str
NonStrings ==
    { [kind |-> "NoneType", text |-> <<>>],
      [kind |-> "int", text |-> <<>>],
      [kind |-> "float", text |-> <<>>] }

(***************************************************************************)
(* Search-term report processing: process_search_term_report and its cell  *)
(* cleaners (services/parser.py).  A cleaned numeric cell is [nan, v]: nan *)
(* for a null, v the number.  Counts are integers; money and percentages   *)
(* are in hundredths (Spend 20.00 is 2000, ACOS 45.00 is 4500).            *)
(***************************************************************************)
\* a number in a numeric column
Num(v) == [nan |-> FALSE, v |-> v]

\* a null in a numeric column
NumNaN == [nan |-> TRUE, v |-> 0]

\* clean_percentage(value): what the call does
clean_percentage_call(value) ==
    IF value.kind = "null" THEN ReturnedNone
    ELSE IF value.kind = "number" THEN Returned(value.x)
    ELSE IF value.kind = "str"
    THEN LET p == ParseFloat(Strip(RemoveChars(value.text, {"%", ","})))
         IN  IF p.ok THEN Returned(p.x) ELSE ReturnedNone
    ELSE ReturnedNone

\* clean_percentage of a cell of a sheet, for cells that are NaN or a text
\* that is not an infinity or a nan: the number written in the cell, '%' and
\* ',' removed; a null or unparseable cell gives None
clean_percentage(value) ==
    LET o == clean_percentage_call(SheetCell(value))
    IN  IF o.none THEN NumNaN ELSE Num(o.x.v)

\* int(x) of a number given in hundredths: truncation toward zero
IntOf(v) == IF v >= 0 THEN v \div 100 ELSE 0 - ((0 - v) \div 100)

\* int(x) of a float: OverflowError for an infinity, ValueError for a nan
IntOfFloat(x) ==
    IF x.special \in {"inf", "-inf"} THEN [error |-> "OverflowError", v |-> 0]
    ELSE IF x.special = "nan" THEN [error |-> "ValueError", v |-> 0]
    ELSE [error |-> "", v |-> IntOf(x.v)]

\* the integer n as the value a cleaner returns
ReturnedInt(n) == Returned(Finite(100 * n))

\* clean_integer(value): what the call does.  int(value) of a number is outside
\* the try; in the try only a ValueError is caught.
clean_integer_call(value) ==
    IF value.kind = "null" THEN ReturnedInt(0)
    ELSE IF value.kind = "number"
    THEN LET n == IntOfFloat(value.x)
         IN  IF n.error # "" THEN Raised ELSE ReturnedInt(n.v)
    ELSE IF value.kind = "str"
    THEN LET p == ParseFloat(Strip(RemoveChars(value.text, {","})))
             n == IntOfFloat(p.x)
         IN  IF ~p.ok \/ n.error = "ValueError" THEN ReturnedInt(0)
             ELSE IF n.error = "OverflowError" THEN Raised
             ELSE ReturnedInt(n.v)
    ELSE ReturnedInt(0)

\* clean_integer of a cell of a sheet, for cells that are NaN or a text that
\* is not an infinity: int(float(text)), 0 for a null or unparseable cell
clean_integer(value) == clean_integer_call(SheetCell(value)).x.v \div 100

\* the columns process_search_term_report cleans, by cleaner
IntegerColumns == { <<"I","m","p","r","e","s","s","i","o","n","s">>, <<"C","l","i","c","k","s">>, <<"O","r","d","e","r","s">>, <<"U","n","i","t","s">> }

CurrencyColumns == { <<"S","p","e","n","d">>, <<"S","a","l","e","s">>, <<"C","P","C">> }

PercentageColumns == { <<"A","C","O","S">>, <<"R","O","A","S">>, <<"C","T","R">>, <<"C","o","n","v","e","r","s","i","o","n"," ","R","a","t","e">> }

\* df[col] = df[col].apply(cleaner), then fillna(0) on the count and money columns
CleanCell(name, cell) ==
    IF name \in IntegerColumns THEN Num(clean_integer(cell))
    ELSE IF name \in CurrencyColumns THEN Num(clean_currency(cell))
    ELSE IF name \in PercentageColumns THEN clean_percentage(cell)
    ELSE cell

\* the headers if "Ad Group" were renamed whether or not there is an "Ad Group Name"
ReportColumnsAlways(columns) ==
    LET c1 == normalize_columns(columns)
        n == Tuple([i \in 1..Len(c1) |-> normalized(c1[i])])
        found == {i \in 1..Len(n) : n[i] = <<"a","d"," ","g","r","o","u","p">>}
        first == CHOOSE i \in found : \A j \in found : i <= j
    IN  IF found # {} THEN Rename(c1, c1[first], <<"A","d"," ","G","r","o","u","p"," ","N","a","m","e">>) ELSE c1

\* the headers after normalize_columns and the report's "Ad Group" alias
ReportColumns(columns) ==
    LET c1 == normalize_columns(columns)
        n == Tuple([i \in 1..Len(c1) |-> normalized(c1[i])])
        found == {i \in 1..Len(n) : n[i] = <<"a","d"," ","g","r","o","u","p">>}
        first == CHOOSE i \in found : \A j \in found : i <= j
    IN  IF found # {} /\ ~HasCol(c1, <<"A","d"," ","G","r","o","u","p"," ","N","a","m","e">>)
        THEN Rename(c1, c1[first], <<"A","d"," ","G","r","o","u","p"," ","N","a","m","e">>)
        ELSE c1

\* the rows after the cleaners and fillna(0), for the headers cols
CleanRows(cols, rows) ==
    Tuple([k \in 1..Len(rows) |->
             Tuple([i \in 1..Len(cols) |-> CleanCell(cols[i], rows[k][i])])])

\* process_search_term_report(df), for a report without a Date column
process_search_term_report(d) ==
    [columns |-> ReportColumns(d.columns),
     rows |-> CleanRows(ReportColumns(d.columns), d.rows)]

(***************************************************************************)
(* Rule engine (services/optimization.py).                                 *)
(***************************************************************************)
\* min_spend: float = 10.0, in hundredths
DefaultMinSpend == 1000

\* min_clicks: int = 5
DefaultMinClicks == 5

\* target_acos: float = 30.0, in hundredths
DefaultTargetAcos == 3000

\* min_orders: int = 3
DefaultMinOrders == 3

\* row[name] of row r (1-based position; the row's index label is r - 1)
Cell(d, r, name) == d.rows[r][ColIndex(d.columns, name)]

\* row.get(name, default)
CellOr(d, r, name, default) ==
    IF HasCol(d.columns, name) THEN Cell(d, r, name) ELSE default

\* df.empty
IsEmptyDf(d) == Len(d.rows) = 0 \/ Len(d.columns) = 0

\* df[name].sum() if name in df.columns else 0 (nulls are skipped)
RECURSIVE SumFrom(_, _, _)
SumFrom(d, name, r) ==
    IF r > Len(d.rows) THEN 0
    ELSE (IF Cell(d, r, name).nan THEN 0 ELSE Cell(d, r, name).v) + SumFrom(d, name, r + 1)

ColumnSum(d, name) == IF HasCol(d.columns, name) THEN SumFrom(d, name, 1) ELSE 0

\* where x goes in a list sorted by the field f in descending order: after
\* every element whose f is not smaller (sorted() is stable)
InsertDesc(sorted, x, f) ==
    LET k == Cardinality({i \in 1..Len(sorted) : sorted[i][f] >= x[f]})
    IN  SubSeq(sorted, 1, k) \o <<x>> \o SubSeq(sorted, k + 1, Len(sorted))

RECURSIVE SortedDescFrom(_, _, _)
SortedDescFrom(results, f, acc) ==
    IF results = <<>> THEN acc
    ELSE SortedDescFrom(Tail(results), f, InsertDesc(acc, Head(results), f))

\* sorted(results, key=lambda x: x.f, reverse=True)
SortedDesc(results, f) == SortedDescFrom(results, f, <<>>)

\* the positions of the rows, in row order
Positions(d) == Tuple([r \in 1..Len(d.rows) |-> r])

\* a rational number num / den (den > 0)
Rat(num, den) == [num |-> num, den |-> den]

(***************************************************************************)
(* analyze_bleeding_spend.  A result is [raised, records]: raised when the *)
(* call ends with an exception.                                            *)
(***************************************************************************)
\* df['Targeting'].str raises when no cell of the column is text (the column
\* is then a float column of nulls)
TargetingIsText(d) == \E r \in 1..Len(d.rows) : Cell(d, r, <<"T","a","r","g","e","t","i","n","g">>) # NaN

\* ~df['Targeting'].str.lower().str.startswith('b0', na=False)
NotB0(d, r) ==
    \/ Cell(d, r, <<"T","a","r","g","e","t","i","n","g">>) = NaN
    \/ ~StartsWith(Lower(Cell(d, r, <<"T","a","r","g","e","t","i","n","g">>)), <<"b","0">>)

\* the mask of analyze_bleeding_spend without the Targeting filter
BleedingMask(d, r, min_spend, min_clicks) ==
    /\ Cell(d, r, <<"S","p","e","n","d">>).v >= min_spend
    /\ Cell(d, r, <<"S","a","l","e","s">>).v = 0
    /\ Cell(d, r, <<"C","l","i","c","k","s">>).v >= min_clicks
    /\ Cell(d, r, <<"M","a","t","c","h"," ","T","y","p","e">>) # <<"E","x","a","c","t">>

\* the record of row r if the severity were the spend alone
BleedingItemSeverityOfSpend(d, r) ==
    [id |-> r - 1,
     search_term |-> CellOr(d, r, <<"C","u","s","t","o","m","e","r"," ","S","e","a","r","c","h"," ","T","e","r","m">>, <<"U","n","k","n","o","w","n">>),
     campaign_name |-> CellOr(d, r, <<"C","a","m","p","a","i","g","n"," ","N","a","m","e">>, <<"U","n","k","n","o","w","n">>),
     ad_group_name |-> CellOr(d, r, <<"A","d"," ","G","r","o","u","p"," ","N","a","m","e">>, <<"U","n","k","n","o","w","n">>),
     match_type |-> CellOr(d, r, <<"M","a","t","c","h"," ","T","y","p","e">>, <<"U","n","k","n","o","w","n">>),
     spend |-> Cell(d, r, <<"S","p","e","n","d">>).v,
     clicks |-> Cell(d, r, <<"C","l","i","c","k","s">>).v,
     severity_score |-> Cell(d, r, <<"S","p","e","n","d">>).v,
     action_type |-> "Negative"]

\* the BleedingSpendItem of row r
BleedingItem(d, r) ==
    [id |-> r - 1,
     search_term |-> CellOr(d, r, <<"C","u","s","t","o","m","e","r"," ","S","e","a","r","c","h"," ","T","e","r","m">>, <<"U","n","k","n","o","w","n">>),
     campaign_name |-> CellOr(d, r, <<"C","a","m","p","a","i","g","n"," ","N","a","m","e">>, <<"U","n","k","n","o","w","n">>),
     ad_group_name |-> CellOr(d, r, <<"A","d"," ","G","r","o","u","p"," ","N","a","m","e">>, <<"U","n","k","n","o","w","n">>),
     match_type |-> CellOr(d, r, <<"M","a","t","c","h"," ","T","y","p","e">>, <<"U","n","k","n","o","w","n">>),
     spend |-> Cell(d, r, <<"S","p","e","n","d">>).v,
     clicks |-> Cell(d, r, <<"C","l","i","c","k","s">>).v,
     severity_score |-> Cell(d, r, <<"S","p","e","n","d">>).v * Cell(d, r, <<"C","l","i","c","k","s">>).v,
     action_type |-> "Negative"]

\* the columns analyze_bleeding_spend requires
BleedingRequired == { <<"S","p","e","n","d">>, <<"S","a","l","e","s">>, <<"C","l","i","c","k","s">>, <<"M","a","t","c","h"," ","T","y","p","e">> }

\* analyze_bleeding_spend(df, min_spend, min_clicks)
analyze_bleeding_spend(d, min_spend, min_clicks) ==
    IF IsEmptyDf(d) \/ ~(\A c \in BleedingRequired : HasCol(d.columns, c))
    THEN [raised |-> FALSE, records |-> <<>>]
    ELSE IF HasCol(d.columns, <<"T","a","r","g","e","t","i","n","g">>) /\ ~TargetingIsText(d)
    THEN [raised |-> TRUE, records |-> <<>>]
    ELSE LET mask(r) == /\ BleedingMask(d, r, min_spend, min_clicks)
                        /\ HasCol(d.columns, <<"T","a","r","g","e","t","i","n","g">>) => NotB0(d, r)
             bleeding == SelectSeq(Positions(d), mask)
             results == Tuple([i \in 1..Len(bleeding) |-> BleedingItem(d, bleeding[i])])
         IN  [raised |-> FALSE, records |-> SortedDesc(results, "severity_score")]

(***************************************************************************)
(* analyze_high_acos.  The account averages are rationals; the row's CTR   *)
(* and Conversion Rate are the numbers clean_percentage left in the cells  *)
(* ("2.00%" is 2.0), in hundredths here.  The generated datasets keep away *)
(* from exact ties in the products with 0.7 and 1.3.                       *)
(***************************************************************************)
\* avg_ctr, avg_cpc (in hundredths), avg_cvr
AccountAverages(d) ==
    LET total_impressions == ColumnSum(d, <<"I","m","p","r","e","s","s","i","o","n","s">>)
        total_clicks == ColumnSum(d, <<"C","l","i","c","k","s">>)
        total_spend == ColumnSum(d, <<"S","p","e","n","d">>)
        total_orders == ColumnSum(d, <<"O","r","d","e","r","s">>)
    IN  [avg_ctr |-> IF total_impressions > 0 THEN Rat(total_clicks, total_impressions)
                     ELSE Rat(0, 1),
         avg_cpc |-> IF total_clicks > 0 THEN Rat(total_spend, total_clicks) ELSE Rat(0, 1),
         avg_cvr |-> IF total_clicks > 0 THEN Rat(total_orders, total_clicks) ELSE Rat(0, 1)]

\* x < avg * 0.7 for a cell x of a percentage column: x.v / 100 < (num / den) * 7 / 10
BelowSeventyPercent(x, avg) == ~x.nan /\ x.v * avg.den < avg.num * 70

\* cpc > avg_cpc * 1.3, both in hundredths: cpc.v > (num / den) * 13 / 10
AboveThirtyPercent(cpc, avg) == ~cpc.nan /\ cpc.v * avg.den * 10 > avg.num * 13

\* the root cause of a row, in the order the code tests
Diagnose(ctr, cpc, cvr, avg) ==
    IF BelowSeventyPercent(cvr, avg.avg_cvr)
    THEN [root_cause |-> "Low CVR", value |-> cvr, avg_value |-> avg.avg_cvr,
          action_type |-> "Review Listing/Target"]
    ELSE IF AboveThirtyPercent(cpc, avg.avg_cpc)
    THEN [root_cause |-> "High CPC", value |-> cpc, avg_value |-> avg.avg_cpc,
          action_type |-> "Bid Down"]
    ELSE IF BelowSeventyPercent(ctr, avg.avg_ctr)
    THEN [root_cause |-> "Low CTR", value |-> ctr, avg_value |-> avg.avg_ctr,
          action_type |-> "Negative"]
    ELSE [root_cause |-> "General Efficiency", value |-> Num(0), avg_value |-> Rat(0, 1),
          action_type |-> "Optimization"]

\* the HighACOSItem of row r
HighAcosItem(d, r, avg) ==
    LET diag == Diagnose(CellOr(d, r, <<"C","T","R">>, Num(0)), CellOr(d, r, <<"C","P","C">>, Num(0)),
                         CellOr(d, r, <<"C","o","n","v","e","r","s","i","o","n"," ","R","a","t","e">>, Num(0)), avg)
    IN  [id |-> r - 1,
         search_term |-> CellOr(d, r, <<"C","u","s","t","o","m","e","r"," ","S","e","a","r","c","h"," ","T","e","r","m">>, <<"U","n","k","n","o","w","n">>),
         targeting |-> CellOr(d, r, <<"T","a","r","g","e","t","i","n","g">>, None),
         match_type |-> CellOr(d, r, <<"M","a","t","c","h"," ","T","y","p","e">>, None),
         campaign_name |-> CellOr(d, r, <<"C","a","m","p","a","i","g","n"," ","N","a","m","e">>, <<"U","n","k","n","o","w","n">>),
         acos |-> Cell(d, r, <<"A","C","O","S">>).v,
         spend |-> Cell(d, r, <<"S","p","e","n","d">>).v,
         sales |-> CellOr(d, r, <<"S","a","l","e","s">>, Num(0)).v,
         root_cause |-> diag.root_cause,
         value |-> diag.value,
         avg_value |-> diag.avg_value,
         action_type |-> diag.action_type]

\* analyze_high_acos(df, target_acos), target_acos in hundredths, for datasets
\* whose selected rows have text in the columns the record requires as text
analyze_high_acos(d, target_acos) ==
    IF IsEmptyDf(d) \/ ~HasCol(d.columns, <<"A","C","O","S">>) \/ ~HasCol(d.columns, <<"S","p","e","n","d">>)
    THEN <<>>
    ELSE LET avg == AccountAverages(d)
             mask(r) == /\ ~Cell(d, r, <<"A","C","O","S">>).nan
                        /\ Cell(d, r, <<"A","C","O","S">>).v > target_acos
                        /\ Cell(d, r, <<"S","p","e","n","d">>).v > 0
             high_acos_df == SelectSeq(Positions(d), mask)
             results == Tuple([i \in 1..Len(high_acos_df) |->
                                 HighAcosItem(d, high_acos_df[i], avg)])
         IN  SortedDesc(results, "spend")

(***************************************************************************)
(* analyze_scale_opportunities.                                            *)
(***************************************************************************)
\* the ScaleOpportunityItem of row r; suggested = cpc * 1.2
ScaleItem(d, r) ==
    LET cpc == CellOr(d, r, <<"C","P","C">>, Num(0))
    IN  [id |-> r - 1,
         search_term |-> CellOr(d, r, <<"C","u","s","t","o","m","e","r"," ","S","e","a","r","c","h"," ","T","e","r","m">>, <<"U","n","k","n","o","w","n">>),
         targeting |-> CellOr(d, r, <<"T","a","r","g","e","t","i","n","g">>, None),
         match_type |-> CellOr(d, r, <<"M","a","t","c","h"," ","T","y","p","e">>, None),
         campaign_name |-> CellOr(d, r, <<"C","a","m","p","a","i","g","n"," ","N","a","m","e">>, <<"U","n","k","n","o","w","n">>),
         acos |-> Cell(d, r, <<"A","C","O","S">>).v,
         orders |-> Cell(d, r, <<"O","r","d","e","r","s">>).v,
         conversion_rate |-> CellOr(d, r, <<"C","o","n","v","e","r","s","i","o","n"," ","R","a","t","e">>, Num(0)),
         current_bid |-> cpc.v,
         suggested_bid |-> Rat(cpc.v * 12, 10),
         action_type |-> "Bid Increase"]

\* the mask with a strict comparison of ACOS
ScaleMaskStrict(d, r, target_acos, min_orders) ==
    /\ ~Cell(d, r, <<"A","C","O","S">>).nan
    /\ Cell(d, r, <<"A","C","O","S">>).v * 10 < target_acos * 8
    /\ Cell(d, r, <<"O","r","d","e","r","s">>).v >= min_orders

\* (df['ACOS'] <= target_acos * 0.8) & (df['Orders'] >= min_orders): a
\* comparison with a null is false
ScaleMask(d, r, target_acos, min_orders) ==
    /\ ~Cell(d, r, <<"A","C","O","S">>).nan
    /\ Cell(d, r, <<"A","C","O","S">>).v * 10 <= target_acos * 8
    /\ Cell(d, r, <<"O","r","d","e","r","s">>).v >= min_orders

\* analyze_scale_opportunities(df, target_acos, min_orders), for datasets whose
\* selected rows have text in the columns the record requires as text
analyze_scale_opportunities(d, target_acos, min_orders) ==
    IF IsEmptyDf(d) \/ ~HasCol(d.columns, <<"A","C","O","S">>) \/ ~HasCol(d.columns, <<"O","r","d","e","r","s">>)
    THEN <<>>
    ELSE LET mask(r) == ScaleMask(d, r, target_acos, min_orders)
             scale_df == SelectSeq(Positions(d), mask)
             results == Tuple([i \in 1..Len(scale_df) |-> ScaleItem(d, scale_df[i])])
         IN  SortedDesc(results, "orders")

(***************************************************************************)
(* analyze_budget_saturation (services/optimization.py).  The budgets      *)
(* dataset is the one process_bulk_file returns: Campaign Name, Daily      *)
(* Budget (a number, in hundredths) and, when the export has it, Campaign  *)
(* ID.  A campaign ACOS is the rational 100 * spend / sales.               *)
(***************************************************************************)
\* the characters of the names, in code-point order
CodePoints ==
    << " ", "0", "1", "2", "3", "4", "5", "6", "7", "8", "9",
       "A", "B", "C", "D", "E", "F", "G", "H", "I", "J", "K", "L", "M",
       "N", "O", "P", "Q", "R", "S", "T", "U", "V", "W", "X", "Y", "Z",
       "a", "b", "c", "d", "e", "f", "g", "h", "i", "j", "k", "l", "m",
       "n", "o", "p", "q", "r", "s", "t", "u", "v", "w", "x", "y", "z" >>

Ord(c) == CHOOSE i \in 1..Len(CodePoints) : CodePoints[i] = c

\* a < b for two texts, as Python compares strings
TextLess(a, b) ==
    \E k \in 1..(Len(b)) :
        /\ \A j \in 1..(k - 1) : j <= Len(a) /\ a[j] = b[j]
        /\ k - 1 <= Len(a)
        /\ (k > Len(a) \/ Ord(a[k]) < Ord(b[k]))

\* the texts of the set S in ascending order
RECURSIVE SortedTexts(_)
SortedTexts(S) ==
    IF S = {} THEN <<>>
    ELSE LET least == CHOOSE a \in S : \A b \in S \ {a} : TextLess(a, b)
         IN  <<least>> \o SortedTexts(S \ {least})

\* the sum of column name over the rows of campaign c
RECURSIVE GroupSumFrom(_, _, _, _)
GroupSumFrom(d, c, name, r) ==
    IF r > Len(d.rows) THEN 0
    ELSE (IF Cell(d, r, <<"C","a","m","p","a","i","g","n"," ","N","a","m","e">>) = c THEN Cell(d, r, name).v ELSE 0)
         + GroupSumFrom(d, c, name, r + 1)

\* the campaign ACOS if a campaign without sales counted as ACOS 100
CampaignAcosUnsold(spend, sales) == IF sales > 0 THEN Rat(100 * spend, sales) ELSE Rat(100, 1)

\* (x['Spend'] / x['Sales'] * 100) if x['Sales'] > 0 else 0
CampaignAcos(spend, sales) == IF sales > 0 THEN Rat(100 * spend, sales) ELSE Rat(0, 1)

\* str_df.groupby('Campaign Name').agg(sum).reset_index() with its ACOS column:
\* one row per campaign name, in ascending name order; rows without a name are
\* left out
CampaignMetrics(d) ==
    LET names == SortedTexts({Cell(d, r, <<"C","a","m","p","a","i","g","n"," ","N","a","m","e">>) : r \in 1..Len(d.rows)} \ {NaN})
    IN  Tuple([i \in 1..Len(names) |->
                 [name |-> names[i],
                  spend |-> GroupSumFrom(d, names[i], <<"S","p","e","n","d">>, 1),
                  sales |-> GroupSumFrom(d, names[i], <<"S","a","l","e","s">>, 1)]])

\* the rows of the inner merge for the campaign m, in the order of the budget rows
RECURSIVE MergeRowsFrom(_, _, _)
MergeRowsFrom(m, b, k) ==
    IF k > Len(b.rows) THEN <<>>
    ELSE (IF Cell(b, k, <<"C","a","m","p","a","i","g","n"," ","N","a","m","e">>) = m.name
          THEN << [name |-> m.name, spend |-> m.spend, sales |-> m.sales,
                   budget |-> Cell(b, k, <<"D","a","i","l","y"," ","B","u","d","g","e","t">>)] >>
          ELSE <<>>)
         \o MergeRowsFrom(m, b, k + 1)

\* pd.merge(campaign_metrics, bulk_df, on='Campaign Name', how='inner')
RECURSIVE MergeFrom(_, _, _)
MergeFrom(metrics, b, i) ==
    IF i > Len(metrics) THEN <<>>
    ELSE MergeRowsFrom(metrics[i], b, 1) \o MergeFrom(metrics, b, i + 1)

\* a < b for two rationals
RatLess(a, b) == a.num * b.den < b.num * a.den

\* acos <= 30.0
BelowOrAtCutoff(acos) == acos.num <= 30 * acos.den

\* the "profitable" cutoff: acos < 30.0
BelowCutoff(acos) == acos.num < 30 * acos.den

\* the row is kept: not (budget <= 0), and a profitable ACOS
Saturated(row) == row.budget > 0 /\ BelowCutoff(CampaignAcos(row.spend, row.sales))

\* the record if it reported the utilization spend / budget, in percent
BudgetSaturationItemUtilized(row) ==
    [campaign_name |-> row.name,
     daily_budget |-> row.budget,
     spend |-> row.spend,
     utilization |-> (100 * row.spend) \div row.budget,
     acos |-> CampaignAcos(row.spend, row.sales),
     suggested_budget |-> Rat(row.budget * 12, 10),
     action_type |-> "Budget Increase"]

\* the BudgetSaturationItem of a merged row
BudgetSaturationItem(row) ==
    [campaign_name |-> row.name,
     daily_budget |-> row.budget,
     spend |-> row.spend,
     utilization |-> 0,
     acos |-> CampaignAcos(row.spend, row.sales),
     suggested_budget |-> Rat(row.budget * 12, 10),
     action_type |-> "Budget Increase"]

\* where x goes in a list sorted by acos in ascending order: after every
\* element whose acos is not greater (sorted() is stable)
InsertByAcos(sorted, x) ==
    LET k == Cardinality({i \in 1..Len(sorted) : ~RatLess(x.acos, sorted[i].acos)})
    IN  SubSeq(sorted, 1, k) \o <<x>> \o SubSeq(sorted, k + 1, Len(sorted))

\* sorted(results, key=lambda x: x.acos)
RECURSIVE SortedByAcosFrom(_, _)
SortedByAcosFrom(results, acc) ==
    IF results = <<>> THEN acc
    ELSE SortedByAcosFrom(Tail(results), InsertByAcos(acc, Head(results)))

\* the records of the kept rows, in merge order
SaturationItems(kept) == Tuple([i \in 1..Len(kept) |-> BudgetSaturationItem(kept[i])])

\* the records of the merged rows
SaturationRecords(merged) ==
    SortedByAcosFrom(SaturationItems(SelectSeq(merged, Saturated)), <<>>)

\* analyze_budget_saturation(str_df, bulk_df): [raised, records]; the merge raises
\* a KeyError when the budgets have no Campaign Name column
analyze_budget_saturation(str_df, b) ==
    IF IsEmptyDf(str_df) \/ IsEmptyDf(b)
    THEN [raised |-> FALSE, records |-> <<>>]
    ELSE IF ~HasCol(str_df.columns, <<"C","a","m","p","a","i","g","n"," ","N","a","m","e">>)
            \/ ~HasCol(str_df.columns, <<"S","p","e","n","d">>) \/ ~HasCol(str_df.columns, <<"S","a","l","e","s">>)
    THEN [raised |-> FALSE, records |-> <<>>]
    ELSE IF ~HasCol(b.columns, <<"D","a","i","l","y"," ","B","u","d","g","e","t">>)
    THEN [raised |-> FALSE, records |-> <<>>]
    ELSE IF ~HasCol(b.columns, <<"C","a","m","p","a","i","g","n"," ","N","a","m","e">>)
    THEN [raised |-> TRUE, records |-> <<>>]
    ELSE [raised |-> FALSE,
          records |-> SaturationRecords(MergeFrom(CampaignMetrics(str_df), b, 1))]

(***************************************************************************)
(* calculate_health_score (services/optimization.py).  The ratios and      *)
(* scores are rationals in lowest terms; int() truncates.  The binary      *)
(* float of the code can fall just short of an integer the rational        *)
(* reaches, which moves a truncated score by one inside its range.         *)
(***************************************************************************)
RECURSIVE Gcd(_, _)
Gcd(a, b) == IF b = 0 THEN a ELSE Gcd(b, a % b)

Abs(a) == IF a < 0 THEN 0 - a ELSE a

\* num / den in lowest terms (den > 0)
Quotient(num, den) ==
    Rat(num \div Gcd(Abs(num), den), den \div Gcd(Abs(num), den))

\* int(q) for a rational q: truncation toward zero
IntOfRat(q) == IF q.num >= 0 THEN q.num \div q.den ELSE 0 - ((0 - q.num) \div q.den)

\* the sum of the Spend column over the rows at the given positions
RECURSIVE SpendAt(_, _)
SpendAt(d, positions) ==
    IF positions = <<>> THEN 0
    ELSE Cell(d, Head(positions), <<"S","p","e","n","d">>).v + SpendAt(d, Tail(positions))

\* df[df['Sales'] == 0]['Spend'].sum()
WastedSpend(d) ==
    SpendAt(d, SelectSeq(Positions(d), LAMBDA r : Cell(d, r, <<"S","a","l","e","s">>).v = 0))

\* df[df['Match Type'] == 'Exact']['Spend'].sum()
ExactSpend(d) ==
    SpendAt(d, SelectSeq(Positions(d), LAMBDA r : Cell(d, r, <<"M","a","t","c","h"," ","T","y","p","e">>) = <<"E","x","a","c","t">>))

\* part / total_spend if total_spend > 0 else 0
ShareOfSpend(part, total_spend) ==
    IF total_spend > 0 THEN Quotient(part, total_spend) ELSE Rat(0, 1)

\* max(0, 100 - x)
HundredLess(x) ==
    IF 100 * x.den - x.num > 0 THEN Quotient(100 * x.den - x.num, x.den) ELSE Rat(0, 1)

\* exact_share * 100 * 1.5, without the cap
ExactScoreUncapped(exact_share) == Quotient(150 * exact_share.num, exact_share.den)

\* min(100, exact_share * 100 * 1.5)
ExactScore(exact_share) ==
    IF 150 * exact_share.num < 100 * exact_share.den
    THEN Quotient(150 * exact_share.num, exact_share.den)
    ELSE Rat(100, 1)

\* (total_spend / total_sales * 100) if total_sales > 0 else 100
OverallAcos(total_spend, total_sales) ==
    IF total_sales > 0 THEN Quotient(100 * total_spend, total_sales) ELSE Rat(100, 1)

\* (efficiency_score * 0.4) + (exact_score * 0.3) + (acos_score * 0.3)
Weighted(e, x, a) ==
    Quotient(4 * e.num * x.den * a.den + 3 * x.num * e.den * a.den + 3 * a.num * e.den * x.den,
             10 * e.den * x.den * a.den)

\* the HealthScore of an empty dataset or one without the required columns
ZeroHealthScore ==
    [score |-> 0, spend_efficiency_score |-> 0, acos_stability_score |-> 0,
     exact_match_score |-> 0,
     details |-> [empty |-> TRUE, wasted_spend |-> 0, waste_ratio |-> Rat(0, 1),
                  overall_acos |-> Rat(0, 1)]]

\* the HealthScore for the sub-scores
HealthScore(efficiency_score, exact_score, acos_score, wasted_spend, waste_ratio, overall_acos) ==
    [score |-> IntOfRat(Weighted(efficiency_score, exact_score, acos_score)),
     spend_efficiency_score |-> IntOfRat(efficiency_score),
     acos_stability_score |-> IntOfRat(acos_score),
     exact_match_score |-> IntOfRat(exact_score),
     details |-> [empty |-> FALSE, wasted_spend |-> wasted_spend,
                  waste_ratio |-> waste_ratio, overall_acos |-> overall_acos]]

\* the score for the totals of the dataset
HealthOfTotals(total_spend, total_sales, wasted_spend, exact_spend) ==
    HealthScore(HundredLess(Quotient(100 * ShareOfSpend(wasted_spend, total_spend).num,
                                     ShareOfSpend(wasted_spend, total_spend).den)),
                ExactScore(ShareOfSpend(exact_spend, total_spend)),
                HundredLess(OverallAcos(total_spend, total_sales)),
                wasted_spend,
                ShareOfSpend(wasted_spend, total_spend),
                OverallAcos(total_spend, total_sales))

\* the columns calculate_health_score requires
HealthRequired == { <<"S","p","e","n","d">>, <<"S","a","l","e","s">>, <<"M","a","t","c","h"," ","T","y","p","e">> }

\* calculate_health_score(df)
calculate_health_score(d) ==
    IF IsEmptyDf(d) THEN ZeroHealthScore
    ELSE IF ~(\A c \in HealthRequired : HasCol(d.columns, c)) THEN ZeroHealthScore
    ELSE HealthOfTotals(ColumnSum(d, <<"S","p","e","n","d">>), ColumnSum(d, <<"S","a","l","e","s">>),
                        WastedSpend(d), ExactSpend(d))

(***************************************************************************)
(* Generated cells for the cleaners.                                       *)
(***************************************************************************)
\* the texts written in the cells, before blanks are put around them
CellTexts ==
    { <<>>, <<"1","2">>, <<"1",",","2","3","4">>, <<"$","5",".","5","0">>, <<"4","5","%">>, <<"-","3",".","5">>, <<"+","7">>, <<"5",".">>, <<".","5">>,
      <<"a","b","c">>, <<".">>, <<"-">>, <<"1","2",".","3",".","4">>,
      <<"i","n","f">>, <<"-","i","n","f">>, <<"I","n","f","i","n","i","t","y">>, <<"I","N","F">>, <<"$","i","n","f">>, <<"i","n","f","%">>, <<"n","a","n">>, <<"N","a","N">> }

\* the cells handed to a cleaner
CellValues ==
    {NullCell, OtherCell}
    \cup {NumberCellValue(x) : x \in {Finite(0), Finite(1250), Finite(-399),
                                      Infinity, MinusInfinity}}
    \cup {TextCell(Blanks(l) \o s \o Blanks(r)) : s \in CellTexts, l, r \in 0..MaxPad}
(***************************************************************************)
(* The record models of models/schemas.py: a field declared `str' takes    *)
(* text only, so that constructing a record with None or a null cell in    *)
(* it ends the classifier with a ValidationError.                          *)
(***************************************************************************)
\* a value a field declared `str' accepts
ValidStr(v) == v # None /\ v # NaN

\* HighACOSItem(...): search_term, targeting, match_type and campaign_name are str
HighACOSItemValid(item) ==
    /\ ValidStr(item.search_term)
    /\ ValidStr(item.targeting)
    /\ ValidStr(item.match_type)
    /\ ValidStr(item.campaign_name)

\* ScaleOpportunityItem(...): the same four fields are str
ScaleOpportunityItemValid(item) ==
    /\ ValidStr(item.search_term)
    /\ ValidStr(item.targeting)
    /\ ValidStr(item.match_type)
    /\ ValidStr(item.campaign_name)

\* analyze_high_acos(df, target_acos) as a call: [raised, records]
analyze_high_acos_call(d, target_acos) ==
    LET records == analyze_high_acos(d, target_acos)
    IN  IF \A i \in 1..Len(records) : HighACOSItemValid(records[i])
        THEN [raised |-> FALSE, records |-> records]
        ELSE [raised |-> TRUE, records |-> <<>>]

\* analyze_scale_opportunities(df, target_acos, min_orders) as a call: [raised, records]
analyze_scale_opportunities_call(d, target_acos, min_orders) ==
    LET records == analyze_scale_opportunities(d, target_acos, min_orders)
    IN  IF \A i \in 1..Len(records) : ScaleOpportunityItemValid(records[i])
        THEN [raised |-> FALSE, records |-> records]
        ELSE [raised |-> TRUE, records |-> <<>>]

\* calculate_health_score(df) as a call: [raised, records], the score as the
\* one record
calculate_health_score_call(d) ==
    [raised |-> FALSE, records |-> <<calculate_health_score(d)>>]
(***************************************************************************)
(* The search-term reports of the model: <<header, role>> layouts and rows *)
(* by role, cells as the export writes them.                               *)
(***************************************************************************)
\* rows of a report read by analyze_bleeding_spend
BleedRows ==
    { \* spend 20, no sales, 8 clicks, Broad
      [term |-> <<"o","p","e","n","e","r">>, camp |-> <<"C","a","m","p"," ","A">>, ag |-> <<"A","G"," ","1">>, mt |-> <<"B","r","o","a","d">>,
       tgt |-> <<"b","o","t","t","l","e"," ","o","p","e","n","e","r">>, spend |-> <<"$","2","0",".","0","0">>, sales |-> <<"$","0",".","0","0">>, clicks |-> <<"8">>],
      \* the same with match type Exact
      [term |-> <<"o","p","e","n","e","r">>, camp |-> <<"C","a","m","p"," ","A">>, ag |-> <<"A","G"," ","1">>, mt |-> <<"E","x","a","c","t">>,
       tgt |-> <<"b","o","t","t","l","e"," ","o","p","e","n","e","r">>, spend |-> <<"$","2","0",".","0","0">>, sales |-> <<"$","0",".","0","0">>, clicks |-> <<"8">>],
      \* a keyword that begins with "b0" and is no product ID
      [term |-> <<"o","p","e","n","e","r">>, camp |-> <<"C","a","m","p"," ","B">>, ag |-> <<"A","G"," ","1">>, mt |-> <<"B","r","o","a","d">>,
       tgt |-> <<"b","0","t","t","l","e"," ","o","p","e","n","e","r">>, spend |-> <<"$","2","0",".","0","0">>, sales |-> <<"$","0",".","0","0">>, clicks |-> <<"8">>],
      \* a product ID
      [term |-> <<"b","0","a","b","c","d","e","f","g","h">>, camp |-> <<"C","a","m","p"," ","B">>, ag |-> <<"A","G"," ","2">>, mt |-> <<"-">>,
       tgt |-> <<"B","0","A","B","C","D","E","F","G","H">>, spend |-> <<"$","2","0",".","0","0">>, sales |-> <<"$","0",".","0","0">>, clicks |-> <<"8">>],
      \* both thresholds met exactly, no targeting expression
      [term |-> <<"c","o","r","k">>, camp |-> <<"C","a","m","p"," ","A">>, ag |-> <<"A","G"," ","2">>, mt |-> <<"P","h","r","a","s","e">>,
       tgt |-> NaN, spend |-> <<"1","0">>, sales |-> <<"0">>, clicks |-> <<"5">>],
      \* spend just under the threshold
      [term |-> <<"c","o","r","k">>, camp |-> <<"C","a","m","p"," ","A">>, ag |-> <<"A","G"," ","2">>, mt |-> <<"P","h","r","a","s","e">>,
       tgt |-> <<"c","o","r","k">>, spend |-> <<"$","9",".","9","9">>, sales |-> <<"$","0",".","0","0">>, clicks |-> <<"8">>],
      \* too few clicks, a large spend
      [term |-> <<"c","o","r","k">>, camp |-> <<"C","a","m","p"," ","A">>, ag |-> <<"A","G"," ","2">>, mt |-> <<"B","r","o","a","d">>,
       tgt |-> <<"c","o","r","k">>, spend |-> <<"$","1",",","0","0","0",".","0","0">>, sales |-> <<"$","0",".","0","0">>, clicks |-> <<"4">>],
      \* a row with sales
      [term |-> <<"c","o","r","k">>, camp |-> <<"C","a","m","p"," ","A">>, ag |-> <<"A","G"," ","2">>, mt |-> <<"B","r","o","a","d">>,
       tgt |-> <<"c","o","r","k">>, spend |-> <<"$","2","0",".","0","0">>, sales |-> <<"$","5",".","0","0">>, clicks |-> <<"8">>] }

BleedLayouts ==
    { << <<<<"C","u","s","t","o","m","e","r"," ","S","e","a","r","c","h"," ","T","e","r","m">>, "term">>, <<<<"C","a","m","p","a","i","g","n"," ","N","a","m","e">>, "camp">>,
         <<<<"A","d"," ","G","r","o","u","p"," ","N","a","m","e">>, "ag">>, <<<<"M","a","t","c","h"," ","T","y","p","e">>, "mt">>, <<<<"T","a","r","g","e","t","i","n","g">>, "tgt">>,
         <<<<"S","p","e","n","d">>, "spend">>, <<<<"7"," ","D","a","y"," ","T","o","t","a","l"," ","S","a","l","e","s"," ">>, "sales">>, <<<<"C","l","i","c","k","s">>, "clicks">> >>,
      \* no Targeting column
      << <<<<"C","u","s","t","o","m","e","r"," ","S","e","a","r","c","h"," ","T","e","r","m">>, "term">>, <<<<"C","a","m","p","a","i","g","n"," ","N","a","m","e">>, "camp">>,
         <<<<"A","d"," ","G","r","o","u","p"," ","N","a","m","e">>, "ag">>, <<<<"M","a","t","c","h"," ","T","y","p","e">>, "mt">>,
         <<<<"S","p","e","n","d">>, "spend">>, <<<<"S","a","l","e","s">>, "sales">>, <<<<"C","l","i","c","k","s">>, "clicks">> >>,
      \* a required column is missing
      << <<<<"C","u","s","t","o","m","e","r"," ","S","e","a","r","c","h"," ","T","e","r","m">>, "term">>, <<<<"C","a","m","p","a","i","g","n"," ","N","a","m","e">>, "camp">>,
         <<<<"T","a","r","g","e","t","i","n","g">>, "tgt">>,
         <<<<"S","p","e","n","d">>, "spend">>, <<<<"S","a","l","e","s">>, "sales">>, <<<<"C","l","i","c","k","s">>, "clicks">> >> }

\* [min_spend (hundredths), min_clicks]: the defaults and a stricter pair
BleedConfigs ==
    { [min_spend |-> DefaultMinSpend, min_clicks |-> DefaultMinClicks],
      [min_spend |-> 2000, min_clicks |-> 8] }

\* rows of a report read by analyze_high_acos
HighAcosRows ==
    { \* an efficient row: CTR 2%, CPC 1.00, CVR 5%, ACOS 20%
      [term |-> <<"o","p","e","n","e","r">>, tgt |-> <<"o","p","e","n","e","r">>, mt |-> <<"B","r","o","a","d">>, camp |-> <<"C","a","m","p"," ","A">>,
       imp |-> <<"5",",","0","0","0">>, clicks |-> <<"1","0","0">>, ctr |-> <<"2",".","0","0","%">>, cpc |-> <<"$","1",".","0","0">>,
       spend |-> <<"$","1","0","0",".","0","0">>, sales |-> <<"$","5","0","0",".","0","0">>, acos |-> <<"2","0",".","0","0","%">>,
       orders |-> <<"5">>, cvr |-> <<"5",".","0","0","%">>],
      \* CVR 2% and CPC 2.00: low CVR and a high CPC at once
      [term |-> <<"c","o","r","k">>, tgt |-> <<"c","o","r","k">>, mt |-> <<"B","r","o","a","d">>, camp |-> <<"C","a","m","p"," ","A">>,
       imp |-> <<"1","0","0","0">>, clicks |-> <<"5","0">>, ctr |-> <<"5",".","0","0","%">>, cpc |-> <<"$","2",".","0","0">>,
       spend |-> <<"$","1","0","0",".","0","0">>, sales |-> <<"$","1","0","0",".","0","0">>, acos |-> <<"1","0","0",".","0","0","%">>,
       orders |-> <<"1">>, cvr |-> <<"2",".","0","0","%">>],
      \* CTR 0.5% only
      [term |-> <<"s","c","r","e","w">>, tgt |-> <<"s","c","r","e","w">>, mt |-> <<"P","h","r","a","s","e">>, camp |-> <<"C","a","m","p"," ","B">>,
       imp |-> <<"1","0","0","0","0">>, clicks |-> <<"5","0">>, ctr |-> <<"0",".","5","0","%">>, cpc |-> <<"$","1",".","0","0">>,
       spend |-> <<"$","5","0",".","0","0">>, sales |-> <<"$","1","0","0",".","0","0">>, acos |-> <<"5","0",".","0","0","%">>,
       orders |-> <<"3">>, cvr |-> <<"6",".","0","0","%">>],
      \* a very low CTR: 0.01%
      [term |-> <<"w","i","n","e">>, tgt |-> <<"w","i","n","e">>, mt |-> <<"B","r","o","a","d">>, camp |-> <<"C","a","m","p"," ","B">>,
       imp |-> <<"5","0","0","0","0","0">>, clicks |-> <<"5","0">>, ctr |-> <<"0",".","0","1","%">>, cpc |-> <<"$","1",".","0","0">>,
       spend |-> <<"$","5","0",".","0","0">>, sales |-> <<"$","1","2","5",".","0","0">>, acos |-> <<"4","0",".","0","0","%">>,
       orders |-> <<"3">>, cvr |-> <<"6",".","0","0","%">>],
      \* no sales: the export leaves ACOS empty
      [term |-> <<"t","a","p">>, tgt |-> <<"t","a","p">>, mt |-> <<"B","r","o","a","d">>, camp |-> <<"C","a","m","p"," ","B">>,
       imp |-> <<"1","0","0","0">>, clicks |-> <<"2","0">>, ctr |-> <<"2",".","0","0","%">>, cpc |-> <<"$","1",".","0","0">>,
       spend |-> <<"$","2","0",".","0","0">>, sales |-> <<"$","0",".","0","0">>, acos |-> NaN,
       orders |-> <<"0">>, cvr |-> <<"0",".","0","0","%">>] }

HighAcosLayouts ==
    { << <<<<"C","u","s","t","o","m","e","r"," ","S","e","a","r","c","h"," ","T","e","r","m">>, "term">>, <<<<"T","a","r","g","e","t","i","n","g">>, "tgt">>,
         <<<<"M","a","t","c","h"," ","T","y","p","e">>, "mt">>, <<<<"C","a","m","p","a","i","g","n"," ","N","a","m","e">>, "camp">>,
         <<<<"I","m","p","r","e","s","s","i","o","n","s">>, "imp">>, <<<<"C","l","i","c","k","s">>, "clicks">>,
         <<<<"C","l","i","c","k","-","T","h","r","u"," ","R","a","t","e"," ","(","C","T","R",")">>, "ctr">>, <<<<"C","o","s","t"," ","P","e","r"," ","C","l","i","c","k"," ","(","C","P","C",")">>, "cpc">>,
         <<<<"S","p","e","n","d">>, "spend">>, <<<<"7"," ","D","a","y"," ","T","o","t","a","l"," ","S","a","l","e","s"," ">>, "sales">>,
         <<<<"T","o","t","a","l"," ","A","d","v","e","r","t","i","s","i","n","g"," ","C","o","s","t"," ","o","f"," ","S","a","l","e","s"," ","(","A","C","O","S",")"," ">>, "acos">>,
         <<<<"7"," ","D","a","y"," ","T","o","t","a","l"," ","O","r","d","e","r","s"," ","(","#",")">>, "orders">>, <<<<"7"," ","D","a","y"," ","C","o","n","v","e","r","s","i","o","n"," ","R","a","t","e">>, "cvr">> >>,
      \* no CTR, CPC and Conversion Rate columns
      << <<<<"C","u","s","t","o","m","e","r"," ","S","e","a","r","c","h"," ","T","e","r","m">>, "term">>, <<<<"T","a","r","g","e","t","i","n","g">>, "tgt">>,
         <<<<"M","a","t","c","h"," ","T","y","p","e">>, "mt">>, <<<<"C","a","m","p","a","i","g","n"," ","N","a","m","e">>, "camp">>,
         <<<<"I","m","p","r","e","s","s","i","o","n","s">>, "imp">>, <<<<"C","l","i","c","k","s">>, "clicks">>,
         <<<<"S","p","e","n","d">>, "spend">>, <<<<"S","a","l","e","s">>, "sales">>, <<<<"A","C","O","S">>, "acos">>,
         <<<<"O","r","d","e","r","s">>, "orders">> >>,
      \* no ACOS column
      << <<<<"C","u","s","t","o","m","e","r"," ","S","e","a","r","c","h"," ","T","e","r","m">>, "term">>, <<<<"T","a","r","g","e","t","i","n","g">>, "tgt">>,
         <<<<"M","a","t","c","h"," ","T","y","p","e">>, "mt">>, <<<<"C","a","m","p","a","i","g","n"," ","N","a","m","e">>, "camp">>,
         <<<<"C","l","i","c","k","s">>, "clicks">>, <<<<"S","p","e","n","d">>, "spend">>, <<<<"O","r","d","e","r","s">>, "orders">> >> }

\* target_acos, in hundredths: the default and a laxer one
HighAcosConfigs == { [target_acos |-> DefaultTargetAcos], [target_acos |-> 5000] }

\* rows of a report read by analyze_scale_opportunities
ScaleRows ==
    { [term |-> <<"o","p","e","n","e","r">>, tgt |-> <<"o","p","e","n","e","r">>, mt |-> <<"B","r","o","a","d">>, camp |-> <<"C","a","m","p"," ","A">>,
       acos |-> <<"2","0",".","0","0","%">>, orders |-> <<"5">>, cpc |-> <<"$","1",".","0","0">>, cvr |-> <<"5",".","0","0","%">>],
      \* ACOS at 0.8 x 30 and orders at 3: both thresholds met exactly
      [term |-> <<"c","o","r","k">>, tgt |-> <<"c","o","r","k">>, mt |-> <<"E","x","a","c","t">>, camp |-> <<"C","a","m","p"," ","A">>,
       acos |-> <<"2","4",".","0","0","%">>, orders |-> <<"3">>, cpc |-> <<"$","0",".","5","0">>, cvr |-> <<"4",".","0","0","%">>],
      \* ACOS just above 0.8 x 30
      [term |-> <<"s","c","r","e","w">>, tgt |-> <<"s","c","r","e","w">>, mt |-> <<"B","r","o","a","d">>, camp |-> <<"C","a","m","p"," ","B">>,
       acos |-> <<"2","4",".","0","1","%">>, orders |-> <<"9">>, cpc |-> <<"$","0",".","5","0">>, cvr |-> <<"4",".","0","0","%">>],
      \* too few orders
      [term |-> <<"w","i","n","e">>, tgt |-> <<"w","i","n","e">>, mt |-> <<"B","r","o","a","d">>, camp |-> <<"C","a","m","p"," ","B">>,
       acos |-> <<"1","0",".","0","0","%">>, orders |-> <<"2">>, cpc |-> <<"$","0",".","5","0">>, cvr |-> <<"4",".","0","0","%">>],
      \* no ACOS, many orders
      [term |-> <<"t","a","p">>, tgt |-> <<"t","a","p">>, mt |-> <<"B","r","o","a","d">>, camp |-> <<"C","a","m","p"," ","B">>,
       acos |-> NaN, orders |-> <<"7">>, cpc |-> <<"$","0",".","5","0">>, cvr |-> <<"4",".","0","0","%">>],
      [term |-> <<"k","e","g">>, tgt |-> <<"k","e","g">>, mt |-> <<"P","h","r","a","s","e">>, camp |-> <<"C","a","m","p"," ","A">>,
       acos |-> <<"5",".","0","0","%">>, orders |-> <<"9">>, cpc |-> <<"$","2",".","0","0">>, cvr |-> <<"9",".","0","0","%">>] }

ScaleLayouts ==
    { << <<<<"C","u","s","t","o","m","e","r"," ","S","e","a","r","c","h"," ","T","e","r","m">>, "term">>, <<<<"T","a","r","g","e","t","i","n","g">>, "tgt">>,
         <<<<"M","a","t","c","h"," ","T","y","p","e">>, "mt">>, <<<<"C","a","m","p","a","i","g","n"," ","N","a","m","e">>, "camp">>,
         <<<<"T","o","t","a","l"," ","A","d","v","e","r","t","i","s","i","n","g"," ","C","o","s","t"," ","o","f"," ","S","a","l","e","s"," ","(","A","C","O","S",")"," ">>, "acos">>,
         <<<<"7"," ","D","a","y"," ","T","o","t","a","l"," ","O","r","d","e","r","s"," ","(","#",")">>, "orders">>, <<<<"C","o","s","t"," ","P","e","r"," ","C","l","i","c","k"," ","(","C","P","C",")">>, "cpc">>,
         <<<<"7"," ","D","a","y"," ","C","o","n","v","e","r","s","i","o","n"," ","R","a","t","e">>, "cvr">> >>,
      \* no CPC and Conversion Rate columns
      << <<<<"C","u","s","t","o","m","e","r"," ","S","e","a","r","c","h"," ","T","e","r","m">>, "term">>, <<<<"T","a","r","g","e","t","i","n","g">>, "tgt">>,
         <<<<"M","a","t","c","h"," ","T","y","p","e">>, "mt">>, <<<<"C","a","m","p","a","i","g","n"," ","N","a","m","e">>, "camp">>,
         <<<<"A","C","O","S">>, "acos">>, <<<<"O","r","d","e","r","s">>, "orders">> >>,
      \* no Orders column
      << <<<<"C","u","s","t","o","m","e","r"," ","S","e","a","r","c","h"," ","T","e","r","m">>, "term">>, <<<<"T","a","r","g","e","t","i","n","g">>, "tgt">>,
         <<<<"M","a","t","c","h"," ","T","y","p","e">>, "mt">>, <<<<"C","a","m","p","a","i","g","n"," ","N","a","m","e">>, "camp">>,
         <<<<"A","C","O","S">>, "acos">>, <<<<"C","P","C">>, "cpc">> >> }

\* [target_acos (hundredths), min_orders]: the defaults and another pair
ScaleConfigs ==
    { [target_acos |-> DefaultTargetAcos, min_orders |-> DefaultMinOrders],
      [target_acos |-> 5000, min_orders |-> 6] }


(***************************************************************************)
(* The reports and bulk exports of the budget-saturation specification.    *)
(***************************************************************************)
BudgetPerfRows ==
    { \* Camp A: ACOS 30 alone, 25 together with the next row
      [term |-> <<"o","p","e","n","e","r">>, camp |-> <<"C","a","m","p"," ","A">>, spend |-> <<"$","3",".","0","0">>, sales |-> <<"$","1","0",".","0","0">>],
      [term |-> <<"c","o","r","k">>, camp |-> <<"C","a","m","p"," ","A">>, spend |-> <<"$","2",".","0","0">>, sales |-> <<"$","1","0",".","0","0">>],
      \* Camp B: no sales
      [term |-> <<"s","c","r","e","w">>, camp |-> <<"C","a","m","p"," ","B">>, spend |-> <<"$","1",".","0","0">>, sales |-> <<"$","0",".","0","0">>],
      \* Camp B: ACOS 40
      [term |-> <<"w","i","n","e">>, camp |-> <<"C","a","m","p"," ","B">>, spend |-> <<"$","4",".","0","0">>, sales |-> <<"$","1","0",".","0","0">>],
      \* a row without a campaign name
      [term |-> <<"t","a","p">>, camp |-> NaN, spend |-> <<"$","1",".","0","0">>, sales |-> <<"$","1","0",".","0","0">>] }

BudgetPerfLayouts ==
    { << <<<<"C","u","s","t","o","m","e","r"," ","S","e","a","r","c","h"," ","T","e","r","m">>, "term">>, <<<<"C","a","m","p","a","i","g","n"," ","N","a","m","e">>, "camp">>,
         <<<<"S","p","e","n","d">>, "spend">>, <<<<"7"," ","D","a","y"," ","T","o","t","a","l"," ","S","a","l","e","s"," ">>, "sales">> >>,
      << <<<<"C","a","m","p","a","i","g","n">>, "camp">>, <<<<"S","p","e","n","d">>, "spend">>, <<<<"S","a","l","e","s">>, "sales">> >>,
      \* no Sales column
      << <<<<"C","u","s","t","o","m","e","r"," ","S","e","a","r","c","h"," ","T","e","r","m">>, "term">>, <<<<"C","a","m","p","a","i","g","n"," ","N","a","m","e">>, "camp">>,
         <<<<"S","p","e","n","d">>, "spend">> >> }

BudgetBulkRows ==
    { [entity |-> <<"C","a","m","p","a","i","g","n">>, cname |-> <<"C","a","m","p"," ","A">>, cid |-> <<"1","1","1">>, budget |-> <<"$","1","0",".","0","0">>],
      \* a campaign without a budget
      [entity |-> <<"C","a","m","p","a","i","g","n">>, cname |-> <<"C","a","m","p"," ","B">>, cid |-> <<"3","3","3">>, budget |-> <<"$","0",".","0","0">>],
      \* a second row for Camp B
      [entity |-> <<"C","a","m","p","a","i","g","n">>, cname |-> <<"C","a","m","p"," ","B">>, cid |-> <<"3","3","4">>, budget |-> <<"$","5",".","0","0">>],
      \* an ad-group row
      [entity |-> <<"A","d"," ","G","r","o","u","p">>, cname |-> <<"C","a","m","p"," ","A">>, cid |-> <<"1","1","1">>, budget |-> NaN] }

BudgetBulkLayouts ==
    { << <<<<"E","n","t","i","t","y">>, "entity">>, <<<<"C","a","m","p","a","i","g","n"," ","I","D">>, "cid">>,
         <<<<"C","a","m","p","a","i","g","n"," ","N","a","m","e">>, "cname">>, <<<<"D","a","i","l","y"," ","B","u","d","g","e","t">>, "budget">> >>,
      \* no record type: the campaign rows are those with a budget
      << <<<<"C","a","m","p","a","i","g","n">>, "cname">>, <<<<"C","a","m","p","a","i","g","n"," ","D","a","i","l","y"," ","B","u","d","g","e","t">>, "budget">> >> }

\* the budgets datasets: what process_bulk_file returns for an export, or the
\* empty pd.DataFrame() of a session without a bulk upload
BudgetDatasets ==
    { [columns |-> <<>>, rows |-> <<>>] }
    \cup { [columns |-> process_bulk_file(MkFrame(p, rs)).columns,
            rows |-> process_bulk_file(MkFrame(p, rs)).rows] :
           p \in BudgetBulkLayouts, rs \in DistinctSeqs(BudgetBulkRows, MaxRows) }

(***************************************************************************)
(* The reports of the health-score specification.                          *)
(***************************************************************************)
HealthRows ==
    { [term |-> <<"o","p","e","n","e","r">>, mt |-> <<"E","x","a","c","t">>, spend |-> <<"$","4",".","0","0">>, sales |-> <<"$","1","0",".","0","0">>],
      \* wasted spend
      [term |-> <<"c","o","r","k">>, mt |-> <<"B","r","o","a","d">>, spend |-> <<"$","3",".","0","0">>, sales |-> <<"$","0",".","0","0">>],
      \* no spend, no sales
      [term |-> <<"s","c","r","e","w">>, mt |-> <<"E","x","a","c","t">>, spend |-> <<"$","0",".","0","0">>, sales |-> <<"$","0",".","0","0">>],
      \* no spend, with sales
      [term |-> <<"w","i","n","e">>, mt |-> <<"B","r","o","a","d">>, spend |-> NaN, sales |-> <<"$","5",".","0","0">>],
      \* ACOS 200, no match type
      [term |-> <<"t","a","p">>, mt |-> NaN, spend |-> <<"$","2",".","0","0">>, sales |-> <<"$","1",".","0","0">>],
      \* a negative spend
      [term |-> <<"j","u","g">>, mt |-> <<"B","r","o","a","d">>, spend |-> <<"-","$","5",".","0","0">>, sales |-> <<"$","0",".","0","0">>] }

HealthLayouts ==
    { << <<<<"C","u","s","t","o","m","e","r"," ","S","e","a","r","c","h"," ","T","e","r","m">>, "term">>, <<<<"M","a","t","c","h"," ","T","y","p","e">>, "mt">>,
         <<<<"S","p","e","n","d">>, "spend">>, <<<<"7"," ","D","a","y"," ","T","o","t","a","l"," ","S","a","l","e","s"," ">>, "sales">> >>,
      \* no Match Type column
      << <<<<"C","u","s","t","o","m","e","r"," ","S","e","a","r","c","h"," ","T","e","r","m">>, "term">>, <<<<"S","p","e","n","d">>, "spend">>,
         <<<<"S","a","l","e","s">>, "sales">> >>,
      \* no Sales column
      << <<<<"C","u","s","t","o","m","e","r"," ","S","e","a","r","c","h"," ","T","e","r","m">>, "term">>, <<<<"m","a","t","c","h"," ","t","y","p","e">>, "mt">>,
         <<<<"S","p","e","n","d">>, "spend">> >> }

(***************************************************************************)
(* Incomplete reports: a report with every column the classifiers read,    *)
(* and the same report with one of the columns left out.                   *)
(***************************************************************************)
IncompleteRows ==
    { \* spend 20, no sales, 8 clicks: bleeding spend
      [term |-> <<"t","a","p">>, tgt |-> <<"t","a","p">>, mt |-> <<"B","r","o","a","d">>, camp |-> <<"C","a","m","p"," ","B">>,
       ag |-> <<"A","G"," ","1">>, imp |-> <<"1","0","0","0">>, clicks |-> <<"8">>, ctr |-> <<"0",".","8","0","%">>,
       cpc |-> <<"$","2",".","5","0">>, spend |-> <<"$","2","0",".","0","0">>, sales |-> <<"$","0",".","0","0">>, acos |-> NaN,
       orders |-> <<"0">>, cvr |-> <<"0",".","0","0","%">>],
      \* ACOS 100%: high ACOS
      [term |-> <<"c","o","r","k">>, tgt |-> <<"c","o","r","k">>, mt |-> <<"E","x","a","c","t">>, camp |-> <<"C","a","m","p"," ","A">>,
       ag |-> <<"A","G"," ","1">>, imp |-> <<"1","0","0","0">>, clicks |-> <<"5","0">>, ctr |-> <<"5",".","0","0","%">>,
       cpc |-> <<"$","2",".","0","0">>, spend |-> <<"$","1","0","0",".","0","0">>, sales |-> <<"$","1","0","0",".","0","0">>,
       acos |-> <<"1","0","0",".","0","0","%">>, orders |-> <<"1">>, cvr |-> <<"2",".","0","0","%">>],
      \* ACOS 20% and 5 orders: a scale opportunity, and a campaign under the cutoff
      [term |-> <<"o","p","e","n","e","r">>, tgt |-> <<"o","p","e","n","e","r">>, mt |-> <<"B","r","o","a","d">>, camp |-> <<"C","a","m","p"," ","C">>,
       ag |-> <<"A","G"," ","2">>, imp |-> <<"5",",","0","0","0">>, clicks |-> <<"1","0","0">>, ctr |-> <<"2",".","0","0","%">>,
       cpc |-> <<"$","1",".","0","0">>, spend |-> <<"$","1","0","0",".","0","0">>, sales |-> <<"$","5","0","0",".","0","0">>,
       acos |-> <<"2","0",".","0","0","%">>, orders |-> <<"5">>, cvr |-> <<"5",".","0","0","%">>] }

FullLayout ==
    << <<<<"C","u","s","t","o","m","e","r"," ","S","e","a","r","c","h"," ","T","e","r","m">>, "term">>, <<<<"T","a","r","g","e","t","i","n","g">>, "tgt">>,
       <<<<"M","a","t","c","h"," ","T","y","p","e">>, "mt">>, <<<<"C","a","m","p","a","i","g","n"," ","N","a","m","e">>, "camp">>,
       <<<<"A","d"," ","G","r","o","u","p"," ","N","a","m","e">>, "ag">>, <<<<"I","m","p","r","e","s","s","i","o","n","s">>, "imp">>, <<<<"C","l","i","c","k","s">>, "clicks">>,
       <<<<"C","T","R">>, "ctr">>, <<<<"C","P","C">>, "cpc">>, <<<<"S","p","e","n","d">>, "spend">>,
       <<<<"S","a","l","e","s">>, "sales">>, <<<<"A","C","O","S">>, "acos">>, <<<<"O","r","d","e","r","s">>, "orders">>,
       <<<<"C","o","n","v","e","r","s","i","o","n"," ","R","a","t","e">>, "cvr">> >>

\* the layout without its k-th column
Without(layout, k) == SubSeq(layout, 1, k - 1) \o SubSeq(layout, k + 1, Len(layout))

IncompleteLayouts == {FullLayout} \cup {Without(FullLayout, k) : k \in 1..Len(FullLayout)}

\* the budgets of the session's bulk file
IncompleteBudgets ==
    [columns |-> << <<"C","a","m","p","a","i","g","n"," ","N","a","m","e">>, <<"D","a","i","l","y"," ","B","u","d","g","e","t">> >>,
     rows |-> << <<<<"C","a","m","p"," ","A">>, 1000>>, <<<<"C","a","m","p"," ","B">>, 2500>>, <<<<"C","a","m","p"," ","C">>, 5000>> >>]

IncompleteConfigs ==
    { [target_acos |-> DefaultTargetAcos, min_spend |-> DefaultMinSpend,
       min_clicks |-> DefaultMinClicks, min_orders |-> DefaultMinOrders] }

(***************************************************************************)
(* Uploaded reports as process_search_term_report gets them: spellings of  *)
(* the "Ad Group" header with or without an "Ad Group Name" column, and    *)
(* numeric cells that are missing, negative or no number.                  *)
(***************************************************************************)
\* spellings of "Ad Group": lower case, title case, capitals, with blanks around
AdGroupSpellings ==
    {Variant(<<"a","d"," ","g","r","o","u","p">>, k, title, l, r) :
        k \in {0, 8}, title \in BOOLEAN, l \in 0..MaxPad, r \in 0..MaxPad}

\* spellings of "Ad Group Name", the last one no alias of it
AdGroupNameSpellings ==
    { <<"A","d"," ","G","r","o","u","p"," ","N","a","m","e">>, <<"a","d"," ","g","r","o","u","p"," ","n","a","m","e"," ">>, <<"A","d"," ","G","r","o","u","p"," ","N","a","m","e"," ","(","I","n","f","o","r","m","a","t","i","o","n","a","l"," ","o","n","l","y",")">> }

UploadRows ==
    { \* an ordinary row
      [ag |-> <<"A","G"," ","1">>, agn |-> <<"G","r","o","u","p"," ","O","n","e">>, imp |-> <<"1",",","0","0","0">>, clicks |-> <<"8">>,
       spend |-> <<"$","2","0",".","0","0">>, sales |-> <<"$","0",".","0","0">>, orders |-> <<"0">>, units |-> <<"2">>],
      \* negative numbers and a text that is no number
      [ag |-> <<"A","G"," ","2">>, agn |-> <<"G","r","o","u","p"," ","T","w","o">>, imp |-> <<"a","b","c">>, clicks |-> <<"-","3">>,
       spend |-> <<"-","$","5",".","0","0">>, sales |-> <<"-","1","2",".","5","0">>, orders |-> <<"-","1">>, units |-> <<"-"," ","1">>],
      \* missing cells
      [ag |-> NaN, agn |-> NaN, imp |-> NaN, clicks |-> NaN,
       spend |-> NaN, sales |-> NaN, orders |-> NaN, units |-> NaN] }

\* the columns after the ad-group ones
UploadNumericLayout ==
    << <<<<"I","m","p","r","e","s","s","i","o","n","s">>, "imp">>, <<<<"C","l","i","c","k","s">>, "clicks">>, <<<<"S","p","e","n","d">>, "spend">>,
       <<<<"7"," ","D","a","y"," ","T","o","t","a","l"," ","S","a","l","e","s"," ">>, "sales">>, <<<<"7"," ","D","a","y"," ","T","o","t","a","l"," ","O","r","d","e","r","s"," ","(","#",")">>, "orders">>,
       <<<<"u","n","i","t","s">>, "units">> >>

\* at most one "Ad Group" header and at most one "Ad Group Name" header, in
\* either order, before the numeric columns
UploadLayouts ==
    LET ag == {<<>>} \cup {<< <<h, "ag">> >> : h \in AdGroupSpellings}
        agn == {<<>>} \cup {<< <<h, "agn">> >> : h \in AdGroupNameSpellings}
    IN  {a \o n \o UploadNumericLayout : a \in ag, n \in agn}
            \cup {n \o a \o UploadNumericLayout : a \in ag, n \in agn}
(***************************************************************************)
(* Bulk negatives: generate_negatives_bulk_file                            *)
(* (services/negative_generator.py) and the direct-items case of           *)
(* export_negatives (routers/export.py).  A record is a dict: a key it     *)
(* does not have holds Absent; its is_asin entry is [present, value].      *)
(***************************************************************************)
\* a key that is not in the dict
Absent == <<"absent">>

\* item.get(key, default)
Get(v, default) == IF v = Absent THEN default ELSE v

Upper(s) == Tuple([i \in 1..Len(s) |-> UpperChar(s[i])])

\* s.replace(old, new) for single characters
ReplaceChar(s, old, new) == Tuple([i \in 1..Len(s) |-> IF s[i] = old THEN new ELSE s[i]])

\* s.strip(c) for a single character c
StripChar(s, c) ==
    LET lo == CHOOSE i \in 1..Len(s) : s[i] # c /\ \A j \in 1..(i - 1) : s[j] = c
        hi == CHOOSE i \in 1..Len(s) : s[i] # c /\ \A j \in (i + 1)..Len(s) : s[j] = c
    IN  IF \A i \in 1..Len(s) : s[i] = c THEN <<>> ELSE SubSeq(s, lo, hi)

\* classify_negative_type(search_term)
classify_negative_type(search_term) ==
    IF is_asin([kind |-> "str", text |-> search_term])
    THEN "negative_product" ELSE "negative_keyword"

\* generate_empty_row() with the fields a negative row can set; the other
\* headers of BULK_HEADERS stay None in every row
generate_empty_row ==
    [Product |-> None, Entity |-> None, Operation |-> None, CampaignID |-> None,
     AdGroupID |-> None, PortfolioID |-> None, CampaignName |-> None,
     AdGroupName |-> None, State |-> None, KeywordText |-> None, MatchType |-> None,
     ProductTargetingExpression |-> None]

\* the row of one record
NegativeRow(item, match_type) ==
    LET search_term == ReplaceChar(Get(item.customer_search_term, <<>>), "/", " ")
        campaign_name == StripChar(StripChar(Get(item.campaign_name, <<>>), "'"), "\"")
        campaign_id == Get(item.campaign_id, <<>>)
        ad_group_id == Get(item.ad_group_id, <<>>)
        portfolio_id == Get(item.portfolio_id, <<>>)
        item_is_asin == item.is_asin.present /\ item.is_asin.value
        common == [generate_empty_row EXCEPT
                     !.Product = <<"S","p","o","n","s","o","r","e","d"," ","P","r","o","d","u","c","t","s">>,
                     !.Operation = <<"C","r","e","a","t","e">>,
                     !.CampaignID = IF Truthy(campaign_id) THEN campaign_id ELSE None,
                     !.AdGroupID = IF Truthy(ad_group_id) THEN ad_group_id ELSE None,
                     !.PortfolioID = IF Truthy(portfolio_id) THEN portfolio_id ELSE None,
                     !.CampaignName = campaign_name,
                     !.AdGroupName = Get(item.ad_group_name, <<>>),
                     !.State = <<"E","n","a","b","l","e","d">>]
    IN  IF item_is_asin
        THEN [common EXCEPT
                !.Entity = <<"N","e","g","a","t","i","v","e"," ","P","r","o","d","u","c","t"," ","T","a","r","g","e","t","i","n","g">>,
                !.ProductTargetingExpression =
                    <<"a","s","i","n","=">> \o <<"\"">> \o Upper(search_term) \o <<"\"">>]
        ELSE [common EXCEPT
                !.Entity = <<"N","e","g","a","t","i","v","e"," ","K","e","y","w","o","r","d">>,
                !.KeywordText = search_term,
                !.MatchType = match_type]

\* generate_negatives_bulk_file(selected_items, use_negative_phrase): the rows of
\* the sheet it writes
generate_negatives_bulk_file(selected_items, use_negative_phrase) ==
    Tuple([i \in 1..Len(selected_items) |->
             NegativeRow(selected_items[i],
                         IF use_negative_phrase THEN <<"N","e","g","a","t","i","v","e"," ","P","h","r","a","s","e">>
                         ELSE <<"N","e","g","a","t","i","v","e"," ","E","x","a","c","t">>)])

\* export_negatives, direct items: the record handed to the generator
PrepareItem(i) ==
    LET term == IF i.search_term # Absent /\ i.customer_search_term = Absent
                THEN i.search_term ELSE i.customer_search_term
    IN  [i EXCEPT
           !.customer_search_term = term,
           !.campaign_name = IF i.campaign_name = Absent /\ i.CampaignName # Absent
                             THEN i.CampaignName ELSE i.campaign_name,
           !.ad_group_name = IF i.ad_group_name = Absent /\ i.AdGroupName # Absent
                             THEN i.AdGroupName ELSE i.ad_group_name,
           !.is_asin = IF ~i.is_asin.present
                       THEN [present |-> TRUE,
                             value |-> is_asin([kind |-> "str", text |-> Get(term, <<>>)])]
                       ELSE i.is_asin]

\* export_negatives with request.items: the rows of the file
export_negatives(req) ==
    generate_negatives_bulk_file(Tuple([k \in 1..Len(req.items) |-> PrepareItem(req.items[k])]),
                                 req.use_negative_phrase)

\* a dict with the given search-term entries and is_asin entry
NegItem(cst, st, flag, cn, agn, CN, AGN, cid, agid, pid) ==
    [customer_search_term |-> cst, search_term |-> st, is_asin |-> flag,
     campaign_name |-> cn, ad_group_name |-> agn, CampaignName |-> CN, AdGroupName |-> AGN,
     campaign_id |-> cid, ad_group_id |-> agid, portfolio_id |-> pid]

NoFlag == [present |-> FALSE, value |-> FALSE]

Flag(b) == [present |-> TRUE, value |-> b]

\* the records of a request
NegItemSet ==
    { \* a product ID, no flag
      NegItem(<<"B","0","A","B","C","D","E","F","G","H">>, Absent, NoFlag, <<"C","a","m","p"," ","A">>, <<"A","G"," ","1">>, Absent, Absent,
              Absent, Absent, Absent),
      \* a decision-center record: the term under 'search_term', IDs, no flag
      NegItem(Absent, <<"b","o","t","t","l","e","/","o","p","e","n","e","r">>, NoFlag, <<"'","C","a","m","p"," ","B","'">>, <<"A","G"," ","1">>, Absent, Absent,
              <<"3","3","3">>, <<"4","4","4">>, <<"9">>),
      \* a product ID under 'search_term', no flag
      NegItem(Absent, <<" ","b","0","a","b","c","d","e","f","g","h">>, NoFlag, <<"C","a","m","p"," ","A">>, <<"A","G"," ","1">>, Absent, Absent,
              <<"1","1","1">>, None, <<>>),
      \* a search-term result with its flag
      NegItem(<<"b","0","a","b","c","d","e","f","g","h">>, Absent, Flag(TRUE), <<"C","a","m","p"," ","A">>, <<"A","G"," ","1">>, Absent, Absent,
              <<"1","1","1">>, <<"2","2","2">>, None),
      NegItem(<<"c","o","r","k">>, Absent, Flag(FALSE), Absent, Absent, <<"C","a","m","p"," ","A">>, <<"A","G"," ","1">>,
              Absent, Absent, Absent),
      \* a flag that disagrees with the term
      NegItem(<<"B","0","A","B","C","D","E","F","G","H">>, Absent, Flag(FALSE), <<"C","a","m","p"," ","A">>, <<"A","G"," ","1">>, Absent, Absent,
              Absent, Absent, Absent) }

(***************************************************************************)
(* POST /negatives (routers/export.py) with the session store.  The store  *)
(* maps the session ID to the processed report, the session ID followed by *)
(* "_results" to the analysis results and by "_bulk" to the bulk dataset.  *)
(* An exception is [status_code, detail]; a response [status_code, detail, *)
(* rows].                                                                  *)
(***************************************************************************)
\* HTTPException(status_code=..., detail=...)
HTTPException(status_code, detail) == [status_code |-> status_code, detail |-> detail]

\* the try body ended with the exception exc
RaisedIn(exc) == [raised |-> TRUE, exc |-> exc, items |-> <<>>]

\* the try body reached the generator with the records items
Selected(its) == [raised |-> FALSE, exc |-> HTTPException(200, <<>>), items |-> its]

\* str(status_code)
StatusText(status_code) ==
    CASE status_code = 400 -> <<"4","0","0">>
      [] status_code = 404 -> <<"4","0","4">>
      [] status_code = 500 -> <<"5","0","0">>

\* str(e) for an HTTPException: the empty text, or "<status>: <detail>", as the
\* version of the framework has it
StrOfException(e) == { <<>>, StatusText(e.status_code) \o <<":"," ">> \o e.detail }

\* results_df.to_dict(orient='records') for a row of the stored results
ResultItem(row) ==
    NegItem(row.customer_search_term, Absent, Flag(row.is_asin), row.campaign_name,
            row.ad_group_name, Absent, Absent, Absent, Absent, Absent)

\* the record of row r of the session's report, with the columns the fallback adds
FallbackItem(d, r) ==
    LET term == CellOr(d, r, <<"C","u","s","t","o","m","e","r"," ","S","e","a","r","c","h"," ","T","e","r","m">>, <<>>)
        cn == CellOr(d, r, <<"C","a","m","p","a","i","g","n"," ","N","a","m","e">>, <<>>)
        agn == CellOr(d, r, <<"A","d"," ","G","r","o","u","p"," ","N","a","m","e">>, <<>>)
    IN  NegItem(term, Absent, Flag(is_asin([kind |-> "str", text |-> term])), cn, agn,
                CellOr(d, r, <<"C","a","m","p","a","i","g","n"," ","N","a","m","e">>, Absent),
                CellOr(d, r, <<"A","d"," ","G","r","o","u","p"," ","N","a","m","e">>, Absent), Absent, Absent, Absent)

\* if len(results_df) == 0: raise HTTPException(400, ...); the ID maps stay
\* empty (clean_id raises NameError, pd is not imported, and the except clause
\* passes), so the records go to the generator as they are
CheckedItems(its) ==
    IF Len(its) = 0
    THEN RaisedIn(HTTPException(400, <<"N","o"," ","i","t","e","m","s"," ","s","e","l","e","c","t","e","d"," ","f","o","r"," ","e","x","p","o","r","t">>))
    ELSE Selected(its)

\* CASE 2 with the stored results: the rows whose id is selected, or all
FromResults(req, results_df) ==
    LET kept == IF req.selected_ids # <<>>
                THEN SelectSeq(results_df, LAMBDA row : row.id \in Range(req.selected_ids))
                ELSE results_df
    IN  CheckedItems(Tuple([k \in 1..Len(kept) |-> ResultItem(kept[k])]))

\* CASE 2 without stored results: the rows of the session's report
FromSession(req, sess) ==
    IF req.session_id \notin DOMAIN sess
    THEN RaisedIn(HTTPException(404, <<"S","e","s","s","i","o","n"," ","n","o","t"," ","f","o","u","n","d">>))
    ELSE LET d == sess[req.session_id]
             valid_ids == SelectSeq(req.selected_ids, LAMBDA i : i \in 0..(Len(d.rows) - 1))
         IN  IF req.selected_ids # <<>>
             THEN IF valid_ids = <<>>
                  THEN RaisedIn(HTTPException(400, <<"N","o"," ","v","a","l","i","d"," ","i","t","e","m","s"," ","s","e","l","e","c","t","e","d">>))
                  ELSE CheckedItems(Tuple([k \in 1..Len(valid_ids) |->
                                             FallbackItem(d, valid_ids[k] + 1)]))
             ELSE CheckedItems(Tuple([r \in 1..Len(d.rows) |-> FallbackItem(d, r)]))

\* the try body of export_negatives up to the generator call
SelectItems(req, sess) ==
    IF req.items # <<>>
    THEN Selected(Tuple([k \in 1..Len(req.items) |-> PrepareItem(req.items[k])]))
    ELSE IF (req.session_id \o <<"_","r","e","s","u","l","t","s">>) \in DOMAIN sess
    THEN FromResults(req, sess[req.session_id \o <<"_","r","e","s","u","l","t","s">>])
    ELSE FromSession(req, sess)

\* except Exception as e: raise HTTPException(500, f"Export failed: {str(e)}")
ExportFailed(e) ==
    { [status_code |-> 500, detail |-> <<"E","x","p","o","r","t"," ","f","a","i","l","e","d",":"," ">> \o text, rows |-> <<>>] :
        text \in StrOfException(e) }

\* POST /negatives: the responses the client can get
post_negatives(req, sess) ==
    LET body == SelectItems(req, sess)
    IN  IF body.raised
        THEN ExportFailed(body.exc)
        ELSE { [status_code |-> 200, detail |-> <<>>,
                rows |-> generate_negatives_bulk_file(body.items, req.use_negative_phrase)] }

(***************************************************************************)
(* Generated session stores.                                               *)
(***************************************************************************)
SessionIds == { <<"s","1">>, <<"s","2">> }

\* the IDs a request selects: two row labels, and one no dataset has
SelectableIds == {0, 1, 7}

\* rows of stored analysis results
StoredResults ==
    << [id |-> 0, customer_search_term |-> <<"c","o","r","k">>, campaign_name |-> <<"C","a","m","p"," ","A">>,
        ad_group_name |-> <<"A","G"," ","1">>, is_asin |-> FALSE],
       [id |-> 1, customer_search_term |-> <<"b","0","a","b","c","d","e","f","g","h">>, campaign_name |-> <<"C","a","m","p"," ","A">>,
        ad_group_name |-> <<"A","G"," ","1">>, is_asin |-> TRUE] >>

\* a processed report of a session
SessionReport ==
    [columns |-> << <<"C","u","s","t","o","m","e","r"," ","S","e","a","r","c","h"," ","T","e","r","m">>, <<"C","a","m","p","a","i","g","n"," ","N","a","m","e">>, <<"A","d"," ","G","r","o","u","p"," ","N","a","m","e">> >>,
     rows |-> << << <<"c","o","r","k">>, <<"C","a","m","p"," ","A">>, <<"A","G"," ","1">> >>,
                 << <<"B","0","A","B","C","D","E","F","G","H">>, <<"C","a","m","p"," ","B">>, <<"A","G"," ","1">> >> >>]

\* the stores: empty; a report; an empty report; a report with its results;
\* results that are empty
SessionStores ==
    { <<>>,
      (<<"s","1">> :> SessionReport),
      (<<"s","1">> :> [columns |-> SessionReport.columns, rows |-> <<>>]),
      (<<"s","1">> :> SessionReport) @@ (<<"s","1","_","r","e","s","u","l","t","s">> :> StoredResults),
      (<<"s","1">> :> SessionReport) @@ (<<"s","1","_","r","e","s","u","l","t","s">> :> <<>>) }
(***************************************************************************)
(* New auto campaigns: generate_auto_campaign_bulk_file and                *)
(* validate_ad_group_config (services/campaign_generator.py) and           *)
(* export_auto_campaign (routers/export.py).  An ad group is a dict: a key *)
(* it does not have holds Absent (text), NoFlag (bool), NoNumber (number)  *)
(* or NoList (list).  Bids and budgets are hundredths.  A numeric cell of  *)
(* a row is a one-element tuple, so that '' is the empty tuple in every    *)
(* column.                                                                 *)
(***************************************************************************)
\* a number, None where a number is optional, and a key that is not in the dict
Number(n) == [kind |-> "number", v |-> n]

NoneNumber == [kind |-> "None", v |-> 0]

NoNumber == [kind |-> "absent", v |-> 0]

\* d.get(key, default) of a numeric entry
GetNumber(x, default) == IF x.kind = "absent" THEN default ELSE x

\* d.get(key, default) of a flag
GetFlag(f, default) == IF f.present THEN f.value ELSE default

\* a list entry and a list key that is not in the dict
List(l) == [present |-> TRUE, value |-> l]

NoList == [present |-> FALSE, value |-> <<>>]

\* the cell of a number
NumberCell(x) == <<x.v>>

\* create_empty_row() with the columns a generated row can set; 'Ad ID',
\* 'Keyword ID', 'Product Targeting ID', 'End Date', 'ASIN (Informational only)'
\* and 'Match Type' stay '' in every row
create_empty_row ==
    [Product |-> <<>>, Entity |-> <<>>, Operation |-> <<>>, CampaignID |-> <<>>,
     AdGroupID |-> <<>>, PortfolioID |-> <<>>, CampaignName |-> <<>>,
     AdGroupName |-> <<>>, StartDate |-> <<>>, TargetingType |-> <<>>, State |-> <<>>,
     DailyBudget |-> <<>>, SKU |-> <<>>, AdGroupDefaultBid |-> <<>>, Bid |-> <<>>,
     KeywordText |-> <<>>, BiddingStrategy |-> <<>>, Placement |-> <<>>,
     Percentage |-> <<>>]

DigitChar == <<"0", "1", "2", "3", "4", "5", "6", "7", "8", "9">>

\* the decimal digits of n, zero-padded to w characters
RECURSIVE ZeroPadded(_, _)
ZeroPadded(n, w) ==
    IF w = 0 THEN <<>> ELSE Append(ZeroPadded(n \div 10, w - 1), DigitChar[(n % 10) + 1])

\* start_date.strftime('%Y%m%d')
Strftime(d) == ZeroPadded(d.year, 4) \o ZeroPadded(d.month, 2) \o ZeroPadded(d.day, 2)

\* generate_campaign_row(...)
generate_campaign_row(campaign_name, daily_budget, bidding_strategy, start_date, portfolio_id) ==
    [create_empty_row EXCEPT
        !.Product = <<"S","p","o","n","s","o","r","e","d"," ","P","r","o","d","u","c","t","s">>,
        !.Entity = <<"C","a","m","p","a","i","g","n">>,
        !.Operation = <<"C","r","e","a","t","e">>,
        !.CampaignID = campaign_name,
        !.CampaignName = campaign_name,
        !.State = <<"e","n","a","b","l","e","d">>,
        !.DailyBudget = NumberCell(daily_budget),
        !.StartDate = Strftime(start_date),
        !.TargetingType = <<"A","u","t","o">>,
        !.BiddingStrategy = bidding_strategy,
        !.PortfolioID = IF Truthy(portfolio_id) THEN portfolio_id ELSE <<>>]

\* generate_bidding_adjustment_row(campaign_name, placement, percentage)
generate_bidding_adjustment_row(campaign_name, placement, percentage) ==
    [create_empty_row EXCEPT
        !.Product = <<"S","p","o","n","s","o","r","e","d"," ","P","r","o","d","u","c","t","s">>,
        !.Entity = <<"B","i","d","d","i","n","g"," ","A","d","j","u","s","t","m","e","n","t">>,
        !.Operation = <<"C","r","e","a","t","e">>,
        !.CampaignID = campaign_name,
        !.CampaignName = campaign_name,
        !.Placement = placement,
        !.Percentage = NumberCell(percentage)]

\* generate_ad_group_row(campaign_name, ad_group_name, default_bid)
generate_ad_group_row(campaign_name, ad_group_name, default_bid) ==
    [create_empty_row EXCEPT
        !.Product = <<"S","p","o","n","s","o","r","e","d"," ","P","r","o","d","u","c","t","s">>,
        !.Entity = <<"A","d"," ","G","r","o","u","p">>,
        !.Operation = <<"C","r","e","a","t","e">>,
        !.CampaignID = campaign_name,
        !.AdGroupID = ad_group_name,
        !.CampaignName = campaign_name,
        !.AdGroupName = ad_group_name,
        !.State = <<"e","n","a","b","l","e","d">>,
        !.AdGroupDefaultBid = NumberCell(default_bid)]

\* generate_product_ad_row(campaign_name, ad_group_name, sku)
generate_product_ad_row(campaign_name, ad_group_name, sku) ==
    [create_empty_row EXCEPT
        !.Product = <<"S","p","o","n","s","o","r","e","d"," ","P","r","o","d","u","c","t","s">>,
        !.Entity = <<"P","r","o","d","u","c","t"," ","A","d">>,
        !.Operation = <<"C","r","e","a","t","e">>,
        !.CampaignID = campaign_name,
        !.AdGroupID = ad_group_name,
        !.CampaignName = campaign_name,
        !.AdGroupName = ad_group_name,
        !.State = <<"e","n","a","b","l","e","d">>,
        !.SKU = sku]

\* `if bid:' of a bid that is None or a number
BidTruthy(bid) == bid.kind = "number" /\ bid.v # 0

\* generate_auto_targeting_row(campaign_name, ad_group_name, targeting_type, bid)
generate_auto_targeting_row(campaign_name, ad_group_name, targeting_type, bid) ==
    [create_empty_row EXCEPT
        !.Product = <<"S","p","o","n","s","o","r","e","d"," ","P","r","o","d","u","c","t","s">>,
        !.Entity = <<"P","r","o","d","u","c","t"," ","T","a","r","g","e","t","i","n","g">>,
        !.Operation = <<"C","r","e","a","t","e">>,
        !.CampaignID = campaign_name,
        !.AdGroupID = ad_group_name,
        !.CampaignName = campaign_name,
        !.AdGroupName = ad_group_name,
        !.State = <<"e","n","a","b","l","e","d">>,
        !.KeywordText = <<"a","u","t","o","-","t","a","r","g","e","t","i","n","g","=">> \o targeting_type,
        !.Bid = IF BidTruthy(bid) THEN NumberCell(bid) ELSE <<>>]

\* the rows of `if placement_bid_adjustment.get(key, 0) > 0: rows.append(...)'
PlacementRow(campaign_name, placement, percentage) ==
    IF GetNumber(percentage, Number(0)).v > 0
    THEN <<generate_bidding_adjustment_row(campaign_name, placement, percentage)>>
    ELSE <<>>

\* `if placement_bid_adjustment:' of None or a dict
PlacementTruthy(p) ==
    /\ ~p.none
    /\ \/ p.top_of_search.kind # "absent"
       \/ p.product_pages.kind # "absent"
       \/ p.rest_of_search.kind # "absent"

\* step 2 of generate_auto_campaign_bulk_file: the bidding adjustment rows
PlacementRows(campaign_name, p) ==
    IF ~PlacementTruthy(p) THEN <<>>
    ELSE PlacementRow(campaign_name, <<"P","l","a","c","e","m","e","n","t"," ","T","o","p">>, p.top_of_search)
         \o PlacementRow(campaign_name, <<"P","l","a","c","e","m","e","n","t"," ","P","r","o","d","u","c","t"," ","P","a","g","e">>, p.product_pages)
         \o PlacementRow(campaign_name, <<"P","l","a","c","e","m","e","n","t"," ","R","e","s","t"," ","O","f"," ","S","e","a","r","c","h">>, p.rest_of_search)

\* the product ad rows of skus[k..]: one per SKU that is not None, '' or blank
RECURSIVE ProductAdRowsFrom(_, _, _, _)
ProductAdRowsFrom(campaign_name, ag_name, skus, k) ==
    IF k > Len(skus) THEN <<>>
    ELSE (IF Truthy(skus[k]) /\ Truthy(Strip(skus[k]))
          THEN <<generate_product_ad_row(campaign_name, ag_name, Strip(skus[k]))>>
          ELSE <<>>)
         \o ProductAdRowsFrom(campaign_name, ag_name, skus, k + 1)

\* the rows of `if ag.get(type, False): rows.append(generate_auto_targeting_row(...))'
TargetingRow(campaign_name, ag_name, enabled, targeting_type, bid) ==
    IF GetFlag(enabled, FALSE)
    THEN <<generate_auto_targeting_row(campaign_name, ag_name, targeting_type,
                                       GetNumber(bid, NoneNumber))>>
    ELSE <<>>

\* the auto targeting rows of one ad group
TargetingRows(campaign_name, ag_name, ag) ==
    TargetingRow(campaign_name, ag_name, ag.close_match, <<"c","l","o","s","e","-","m","a","t","c","h">>, ag.close_match_bid)
    \o TargetingRow(campaign_name, ag_name, ag.loose_match, <<"l","o","o","s","e","-","m","a","t","c","h">>, ag.loose_match_bid)
    \o TargetingRow(campaign_name, ag_name, ag.substitutes, <<"s","u","b","s","t","i","t","u","t","e","s">>, ag.substitutes_bid)
    \o TargetingRow(campaign_name, ag_name, ag.complements, <<"c","o","m","p","l","e","m","e","n","t","s">>, ag.complements_bid)

\* the body of `for ag in ad_groups', with the targeting rows put before
\* the product ad rows
AdGroupRowsTargetingFirst(campaign_name, ag) ==
    LET ag_name == Get(ag.ad_group_name, <<>>)
    IN  <<generate_ad_group_row(campaign_name, ag_name, GetNumber(ag.default_bid, Number(75)))>>
        \o TargetingRows(campaign_name, ag_name, ag)
        \o ProductAdRowsFrom(campaign_name, ag_name, ag.skus.value, 1)

\* the body of `for ag in ad_groups': the rows of one ad group
AdGroupRows(campaign_name, ag) ==
    LET ag_name == Get(ag.ad_group_name, <<>>)
    IN  <<generate_ad_group_row(campaign_name, ag_name, GetNumber(ag.default_bid, Number(75)))>>
        \o ProductAdRowsFrom(campaign_name, ag_name, ag.skus.value, 1)
        \o TargetingRows(campaign_name, ag_name, ag)

\* step 3 of generate_auto_campaign_bulk_file: the rows of ad_groups[k..]
RECURSIVE AdGroupsRowsFrom(_, _, _)
AdGroupsRowsFrom(campaign_name, ad_groups, k) ==
    IF k > Len(ad_groups) THEN <<>>
    ELSE AdGroupRows(campaign_name, ad_groups[k])
         \o AdGroupsRowsFrom(campaign_name, ad_groups, k + 1)

\* generate_auto_campaign_bulk_file(...): the rows of the sheet it writes
generate_auto_campaign_bulk_file(c) ==
    <<generate_campaign_row(c.campaign_name, c.daily_budget, c.bidding_strategy,
                            c.start_date, c.portfolio)>>
    \o PlacementRows(c.campaign_name, c.placement_bid_adjustment)
    \o AdGroupsRowsFrom(c.campaign_name, c.ad_groups, 1)

\* errors.append(message) when the rule is violated
ErrorIf(violated, message) == IF violated THEN <<message>> ELSE <<>>

\* any([...]) of the four targeting flags
HasTargeting(ad_group) ==
    \/ GetFlag(ad_group.close_match, FALSE)
    \/ GetFlag(ad_group.loose_match, FALSE)
    \/ GetFlag(ad_group.substitutes, FALSE)
    \/ GetFlag(ad_group.complements, FALSE)

\* a validation that stops at the first violated rule
validate_first_error(ad_group) ==
    IF ~Truthy(Get(ad_group.ad_group_name, None))
    THEN <<<<"A","d"," ","g","r","o","u","p"," ","n","a","m","e"," ","i","s"," ","r","e","q","u","i","r","e","d">>>>
    ELSE IF GetNumber(ad_group.default_bid, Number(0)).v < 2
    THEN <<<<"D","e","f","a","u","l","t"," ","b","i","d"," ","m","u","s","t"," ","b","e"," ","a","t"," ","l","e","a","s","t"," ","$","0",".","0","2">>>>
    ELSE ErrorIf(~HasTargeting(ad_group), <<"A","t"," ","l","e","a","s","t"," ","o","n","e"," ","t","a","r","g","e","t","i","n","g"," ","t","y","p","e"," ","m","u","s","t"," ","b","e"," ","e","n","a","b","l","e","d">>)

\* validate_ad_group_config(ad_group): the list of errors
validate_ad_group_config(ad_group) ==
    ErrorIf(~Truthy(Get(ad_group.ad_group_name, None)), <<"A","d"," ","g","r","o","u","p"," ","n","a","m","e"," ","i","s"," ","r","e","q","u","i","r","e","d">>)
    \o ErrorIf(GetNumber(ad_group.default_bid, Number(0)).v < 2, <<"D","e","f","a","u","l","t"," ","b","i","d"," ","m","u","s","t"," ","b","e"," ","a","t"," ","l","e","a","s","t"," ","$","0",".","0","2">>)
    \o ErrorIf(~HasTargeting(ad_group), <<"A","t"," ","l","e","a","s","t"," ","o","n","e"," ","t","a","r","g","e","t","i","n","g"," ","t","y","p","e"," ","m","u","s","t"," ","b","e"," ","e","n","a","b","l","e","d">>)

\* f"Ad Group {i+1}: {e}" for each error e of the n-th ad group (n = i + 1 < 10)
RECURSIVE Prefixed(_, _)
Prefixed(n, errors) ==
    IF errors = <<>> THEN <<>>
    ELSE <<<<"A","d"," ","G","r","o","u","p"," ">> \o <<DigitChar[n + 1]>> \o <<":"," ">> \o Head(errors)>>
         \o Prefixed(n, Tail(errors))

\* all_errors after the loop over config.ad_groups[k..]
RECURSIVE AllErrorsFrom(_, _)
AllErrorsFrom(ad_groups, k) ==
    IF k > Len(ad_groups) THEN <<>>
    ELSE Prefixed(k, validate_ad_group_config(ad_groups[k]))
         \o AllErrorsFrom(ad_groups, k + 1)

\* "; ".join(all_errors)
RECURSIVE Join(_)
Join(texts) ==
    IF texts = <<>> THEN <<>>
    ELSE IF Len(texts) = 1 THEN texts[1]
    ELSE texts[1] \o <<";"," ">> \o Join(Tail(texts))

\* POST /auto-campaign: the rejection, or the rows of the file in the response
export_auto_campaign(cfg) ==
    LET all_errors == AllErrorsFrom(cfg.ad_groups, 1)
    IN  IF all_errors # <<>>
        THEN [status_code |-> 400, detail |-> Join(all_errors), errors |-> all_errors,
              rows |-> <<>>]
        ELSE [status_code |-> 200, detail |-> <<>>, errors |-> <<>>,
              rows |-> generate_auto_campaign_bulk_file(cfg)]

\* the endpoint with the framework's validation of the request body in front
post_auto_campaign(cfg, valid) ==
    IF ~valid
    THEN [status_code |-> 422, detail |-> <<>>, errors |-> <<>>, rows |-> <<>>]
    ELSE export_auto_campaign(cfg)

(***************************************************************************)
(* Generated configurations.                                               *)
(***************************************************************************)
AdGroup(name, bid, skus, close, loose, subs, comp, close_bid) ==
    [ad_group_name |-> name, default_bid |-> bid, skus |-> skus,
     close_match |-> close, close_match_bid |-> close_bid,
     loose_match |-> loose, loose_match_bid |-> NoneNumber,
     substitutes |-> subs, substitutes_bid |-> NoneNumber,
     complements |-> comp, complements_bid |-> NoneNumber]

\* the ad groups AdGroupConfig admits: a name that is text, a bid of at
\* least 0.02, a list of SKUs, four flags
SchemaAdGroups ==
    { AdGroup(<<"A","G"," ","1">>, Number(75), List(<<<<"S","K","U","-","1">>>>),
              Flag(TRUE), Flag(TRUE), Flag(TRUE), Flag(TRUE), Number(50)),
      AdGroup(<<"A","G"," ","2">>, Number(2), List(<<<<" ","S","K","U","-","2"," ">>, <<" "," ">>, <<"S","K","U","-","1">>>>),
              Flag(FALSE), Flag(TRUE), Flag(FALSE), Flag(TRUE), NoneNumber),
      AdGroup(<<"A","G"," ","3">>, Number(75), List(<<>>),
              Flag(TRUE), Flag(FALSE), Flag(TRUE), Flag(FALSE), Number(0)),
      \* no name and no targeting type
      AdGroup(<<>>, Number(75), List(<<<<"S","K","U","-","1">>>>),
              Flag(FALSE), Flag(FALSE), Flag(FALSE), Flag(FALSE), NoneNumber),
      \* no name
      AdGroup(<<>>, Number(2), List(<<<<>>, <<"S","K","U","-","3">>>>),
              Flag(TRUE), Flag(TRUE), Flag(TRUE), Flag(TRUE), NoneNumber),
      \* no targeting type
      AdGroup(<<"A","G"," ","4">>, Number(75), List(<<<<"S","K","U","-","4">>>>),
              Flag(FALSE), Flag(FALSE), Flag(FALSE), Flag(FALSE), NoneNumber) }

\* the dicts handed to the service functions directly: keys may be missing
\* and the bid may be below the minimum
DictAdGroups ==
    SchemaAdGroups
    \cup
    { \* the empty dict
      AdGroup(Absent, NoNumber, NoList, NoFlag, NoFlag, NoFlag, NoFlag, NoNumber),
      \* a bid below the minimum
      AdGroup(<<"A","G"," ","5">>, Number(1), List(<<None, <<"S","K","U","-","1">>>>),
              Flag(FALSE), Flag(FALSE), Flag(FALSE), Flag(TRUE), NoNumber),
      \* a bid below the minimum and no name
      AdGroup(<<>>, Number(0), NoList, NoFlag, Flag(FALSE), Flag(TRUE), NoFlag, NoNumber),
      \* a bid below the minimum and no targeting type
      AdGroup(<<"A","G"," ","6">>, Number(1), NoList,
              Flag(FALSE), Flag(FALSE), Flag(FALSE), Flag(FALSE), NoNumber) }

\* a placement dict, and None in its place
Placement(top, pages, rest) ==
    [none |-> FALSE, top_of_search |-> top, product_pages |-> pages, rest_of_search |-> rest]

NoPlacement ==
    [none |-> TRUE, top_of_search |-> NoNumber, product_pages |-> NoNumber,
     rest_of_search |-> NoNumber]

\* PlacementBidAdjustment: three percentages in 0..900, or no adjustment
SchemaPlacements ==
    {NoPlacement} \cup {Placement(Number(t), Number(p), Number(r)) :
                    t \in {0, 50}, p \in {0, 25}, r \in {0, 900}}

\* the request AutoCampaignConfig admits; any other gets 422 from the framework
SchemaValid(cfg) ==
    /\ cfg.placement_bid_adjustment \in SchemaPlacements
    /\ \A k \in 1..Len(cfg.ad_groups) : cfg.ad_groups[k] \in SchemaAdGroups

DictPlacements ==
    SchemaPlacements
    \cup {Placement(NoNumber, NoNumber, NoNumber), Placement(NoNumber, Number(10), NoNumber)}

CampaignConfig(portfolio, placement, ad_groups) ==
    [campaign_name |-> <<"C","a","m","p"," ","A">>, portfolio |-> portfolio, daily_budget |-> Number(1000),
     bidding_strategy |-> <<"d","y","n","a","m","i","c"," ","b","i","d","s"," ","-"," ","d","o","w","n"," ","o","n","l","y">>,
     start_date |-> [year |-> 2026, month |-> 1, day |-> 5],
     placement_bid_adjustment |-> placement, ad_groups |-> ad_groups]
(***************************************************************************)
(* Dataset objects.  The functions of the core get references to datasets; *)
(* a heap is the list of the dataset objects there are, a reference a      *)
(* position in it.  df.rename(), df.copy(), df[mask], groupby().agg() and  *)
(* pd.merge() make a new object; df[col] = ... changes the object the name *)
(* refers to.  Each function returns [heap, ret]: the objects after the    *)
(* call and what it returned (a reference, or a value).                    *)
(***************************************************************************)
\* a new object holding frame
NewFrame(heap, frame) == [heap |-> Append(heap, frame), ref |-> Len(heap) + 1]

\* the object at ref now holds frame
AssignColumns(heap, ref, frame) == [heap |-> [heap EXCEPT ![ref] = frame], ref |-> ref]

\* the dataset with other headers
WithColumns(frame, columns) == [columns |-> columns, rows |-> frame.rows]

\* normalize_columns if it set df.columns of its argument instead of renaming a copy
normalize_columns_in_place(heap, d) ==
    AssignColumns(heap, d, WithColumns(heap[d], normalize_columns(heap[d].columns)))

\* normalize_columns(df): return df.rename(columns=new_columns)
normalize_columns_on(heap, d) ==
    NewFrame(heap, WithColumns(heap[d], normalize_columns(heap[d].columns)))

\* normalize_columns on the object r refers to
NormalizedOn(r) == normalize_columns_on(r.heap, r.ref)

\* the Ad Group rename of process_search_term_report on what normalize_columns
\* returned: df.rename makes a new object when a header is renamed
RenamedReport(n) ==
    IF ReportColumns(n.heap[n.ref].columns) # n.heap[n.ref].columns
    THEN NewFrame(n.heap, WithColumns(n.heap[n.ref], ReportColumns(n.heap[n.ref].columns)))
    ELSE n

\* the cleaners and fillna of process_search_term_report: df[col] = ... on the
\* object the name df is bound to
CleanedReport(r) ==
    AssignColumns(r.heap, r.ref,
                  [columns |-> r.heap[r.ref].columns,
                   rows |-> CleanRows(r.heap[r.ref].columns, r.heap[r.ref].rows)])

\* process_search_term_report(df): the name df is bound to what
\* normalize_columns and rename return; the cleaners assign to that object
process_search_term_report_on(heap, d) ==
    CleanedReport(RenamedReport(normalize_columns_on(heap, d)))

\* the renames of process_bulk_file on what normalize_columns returned
RenamedBulk(n) ==
    NewFrame(n.heap, WithColumns(n.heap[n.ref], BulkRename(n.heap[n.ref].columns)))

\* the Entity / Record Type fallback rename
FallbackBulk(r) ==
    IF EntityFallback(r.heap[r.ref].columns) # r.heap[r.ref].columns
    THEN NewFrame(r.heap, WithColumns(r.heap[r.ref], EntityFallback(r.heap[r.ref].columns)))
    ELSE r

\* df['Campaign'] = df['Campaign Name'] on the object the name df is bound to
CampaignAssigned(r, w) ==
    IF ~HasCol(w.columns, <<"C","a","m","p","a","i","g","n">>) /\ HasCol(w.columns, <<"C","a","m","p","a","i","g","n"," ","N","a","m","e">>)
    THEN AssignColumns(r.heap, r.ref,
             [columns |-> Append(w.columns, <<"C","a","m","p","a","i","g","n">>),
              rows |-> Tuple([k \in 1..Len(w.rows) |->
                         Append(w.rows[k],
                                w.rows[k][ColIndex(w.columns, <<"C","a","m","p","a","i","g","n"," ","N","a","m","e">>)])])])
    ELSE r

\* the campaign rows are copied and the budgets selected from the copy
BudgetsSelected(r, out) ==
    [heap |-> IF out.raised THEN r.heap
              ELSE NewFrame(r.heap, [columns |-> out.columns, rows |-> out.rows]).heap,
     ret |-> [raised |-> out.raised, columns |-> out.columns, rows |-> out.rows]]

\* the campaign rows of the object r refers to
CampaignRowsOn(r) ==
    BudgetsSelected(r, CampaignRows(r.heap[r.ref].columns, r.heap[r.ref].rows))

\* the steps of process_bulk_file after the fallback rename
BulkFrom(r) == CampaignRowsOn(CampaignAssigned(r, r.heap[r.ref]))

\* process_bulk_file(df): three renames, df['Campaign'] = ... on the renamed
\* object, the campaign rows copied, the budgets selected from the copy.
\* Returns [heap, ret]: ret the budgets, raised with a KeyError.
process_bulk_file_on(heap, d) ==
    BulkFrom(FallbackBulk(RenamedBulk(normalize_columns_on(heap, d))))

\* the Entity rename of enrich_with_ids on the copy bdf
EntityRenamed(bdf) ==
    IF HasCol(bdf.heap[bdf.ref].columns, <<"E","n","t","i","t","y">>)
       /\ ~HasCol(bdf.heap[bdf.ref].columns, <<"R","e","c","o","r","d"," ","T","y","p","e">>)
    THEN NewFrame(bdf.heap,
                  WithColumns(bdf.heap[bdf.ref],
                              Rename(bdf.heap[bdf.ref].columns, <<"E","n","t","i","t","y">>, <<"R","e","c","o","r","d"," ","T","y","p","e">>)))
    ELSE bdf

\* the lookups are built from the normalized copy and the records changed
InjectOn(its, n) ==
    [heap |-> n.heap, ret |-> InjectFrom(its, BuildLookups(n.heap[n.ref]), 1, 0, {})]

\* enrich_with_ids(items, bulk_df): the lookups are built from bdf = bulk_df.copy(),
\* renamed and normalized; the records are changed.  Returns [heap, ret]: ret
\* what enrich_with_ids gives for the records.
enrich_with_ids_on(heap, its, bulk) ==
    IF IsEmptyFrame(heap[bulk]) \/ its = <<>>
    THEN [heap |-> heap, ret |-> enrich_with_ids(its, heap[bulk])]
    ELSE InjectOn(its, NormalizedOn(EntityRenamed(NewFrame(heap, heap[bulk]))))

\* a classifier that selects rows with df[mask].copy() or df[mask]: the rows
\* go to a new object, df is read only; out is what the classifier returns
Selecting(heap, d, out) == [heap |-> NewFrame(heap, heap[d]).heap, ret |-> out]

analyze_bleeding_spend_on(heap, d, min_spend, min_clicks) ==
    IF IsEmptyDf(heap[d]) THEN [heap |-> heap, ret |-> [raised |-> FALSE, records |-> <<>>]]
    ELSE Selecting(heap, d, analyze_bleeding_spend(heap[d], min_spend, min_clicks))

analyze_high_acos_on(heap, d, target_acos) ==
    IF IsEmptyDf(heap[d]) THEN [heap |-> heap, ret |-> [raised |-> FALSE, records |-> <<>>]]
    ELSE Selecting(heap, d, analyze_high_acos_call(heap[d], target_acos))

analyze_scale_opportunities_on(heap, d, target_acos, min_orders) ==
    IF IsEmptyDf(heap[d]) THEN [heap |-> heap, ret |-> [raised |-> FALSE, records |-> <<>>]]
    ELSE Selecting(heap, d, analyze_scale_opportunities_call(heap[d], target_acos,
                                                              min_orders))

\* analyze_budget_saturation(str_df, bulk_df): the grouped metrics are a new
\* object (its ACOS column is assigned on it), the merge another
analyze_budget_saturation_on(heap, str_df, bulk) ==
    IF IsEmptyDf(heap[str_df]) \/ IsEmptyDf(heap[bulk])
    THEN [heap |-> heap, ret |-> analyze_budget_saturation(heap[str_df], heap[bulk])]
    ELSE Selecting(NewFrame(heap, heap[str_df]).heap, bulk,
                   analyze_budget_saturation(heap[str_df], heap[bulk]))

calculate_health_score_on(heap, d) ==
    IF IsEmptyDf(heap[d]) THEN [heap |-> heap, ret |-> calculate_health_score_call(heap[d])]
    ELSE Selecting(heap, d, calculate_health_score_call(heap[d]))

\* the five classifiers
Classifiers ==
    {"analyze_bleeding_spend", "analyze_high_acos", "analyze_scale_opportunities",
     "analyze_budget_saturation", "calculate_health_score"}

\* the classifier called name on the session's datasets
ClassifierOn(name, heap, d, bulk, cfg) ==
    CASE name = "analyze_bleeding_spend" ->
             analyze_bleeding_spend_on(heap, d, cfg.min_spend, cfg.min_clicks)
      [] name = "analyze_high_acos" -> analyze_high_acos_on(heap, d, cfg.target_acos)
      [] name = "analyze_scale_opportunities" ->
             analyze_scale_opportunities_on(heap, d, cfg.target_acos, cfg.min_orders)
      [] name = "analyze_budget_saturation" -> analyze_budget_saturation_on(heap, d, bulk)
      [] name = "calculate_health_score" -> calculate_health_score_on(heap, d)
(***************************************************************************)
(* The parts of the state a specification does not use stay as they are    *)
(* after construction.                                                     *)
(***************************************************************************)
IdleNorm ==
    /\ hdr_base = <<>>
    /\ df_columns = <<>>
    /\ out_columns = <<>>
    /\ norm_pc = "input"

IdleBulk ==
    /\ bulk_df = [columns |-> <<>>, rows |-> <<>>]
    /\ items = <<>>
    /\ before = <<>>
    /\ ret = 0
    /\ path = "none"
    /\ assigned = {}
    /\ bdf_columns = <<>>
    /\ last_op = "none"
    /\ calls = 0

IdleAsin ==
    /\ asin_value = [kind |-> "NoneType", text |-> <<>>]
    /\ asin_result = FALSE
    /\ asin_pc = "input"

IdleExport ==
    /\ request = <<>>
    /\ output = <<>>
    /\ export_pc = "request"
    /\ sessions = <<>>

IdleCell ==
    /\ cell_value = NullCell
    /\ cell_result = <<>>
    /\ cell_pc = "input"

IdleRule ==
    /\ df = [columns |-> <<>>, rows |-> <<>>]
    /\ config = [target_acos |-> 0]
    /\ result = <<>>
    /\ previous = <<>>
    /\ rule_pc = "raw"

(***************************************************************************)
(* SpecNorm: normalize_columns applied to a dataset whose first header is  *)
(* a spelling of an alias, or of a header that is no alias.                *)
(***************************************************************************)
InitNorm ==
    /\ \E b \in DOMAIN COLUMN_MAPPINGS \cup OtherHeaders :
       \E k \in 0..Len(b), title \in BOOLEAN, l \in 0..MaxPad, r \in 0..MaxPad :
       \E ctx \in HeaderContexts :
          /\ hdr_base = b
          /\ df_columns = <<Variant(b, k, title, l, r)>> \o ctx
    /\ out_columns = <<>>
    /\ norm_pc = "input"
    /\ IdleBulk /\ IdleAsin /\ IdleRule /\ IdleExport /\ IdleCell

NormalizeColumns ==
    /\ norm_pc = "input"
    /\ out_columns' = normalize_columns(df_columns)
    /\ norm_pc' = "normalized"
    /\ UNCHANGED <<hdr_base, df_columns, bulkVars, asinVars, ruleVars, exportVars, cellVars>>

NextNorm == NormalizeColumns

SpecNorm == InitNorm /\ [][NextNorm]_vars

(***************************************************************************)
(* Spec: one session holding a bulk dataset and a list of recommendation   *)
(* records.  The bulk dataset is normalized, processed into budgets, or    *)
(* used to enrich the records (at most MaxCalls times).                    *)
(***************************************************************************)
Init ==
    /\ \E p \in BulkProfiles, rs \in DistinctSeqs(BulkRows, MaxRows) :
          bulk_df = MkFrame(p, rs)
    /\ items \in DistinctSeqs(ItemSet, MaxItems)
    /\ before = items
    /\ ret = 0
    /\ path = "none"
    /\ assigned = {}
    /\ bdf_columns = <<>>
    /\ last_op = "none"
    /\ calls = 0
    /\ IdleNorm /\ IdleAsin /\ IdleRule /\ IdleExport /\ IdleCell

\* normalize_columns(bulk_df)
NormalizeBulk ==
    /\ last_op = "none"
    /\ last_op' = "normalize_columns"
    /\ bdf_columns' = normalize_columns(bulk_df.columns)
    /\ UNCHANGED <<bulk_df, items, before, ret, path, assigned, calls>>
    /\ UNCHANGED <<normVars, asinVars, ruleVars, exportVars, cellVars>>

\* process_bulk_file(bulk_df)
ProcessBulkFile ==
    /\ last_op = "none"
    /\ last_op' = "process_bulk_file"
    /\ \E r \in {process_bulk_file(bulk_df)} :
           /\ bdf_columns' = r.frame
           /\ ret' = [raised |-> r.raised, columns |-> r.columns, rows |-> r.rows]
    /\ UNCHANGED <<bulk_df, items, before, path, assigned, calls>>
    /\ UNCHANGED <<normVars, asinVars, ruleVars, exportVars, cellVars>>

\* enrich_with_ids(items, bulk_df)
EnrichWithIds ==
    /\ last_op \in {"none", "enrich_with_ids"}
    /\ calls < MaxCalls
    /\ last_op' = "enrich_with_ids"
    /\ calls' = calls + 1
    /\ before' = items
    /\ \E e \in {enrich_with_ids(items, bulk_df)} :
           /\ items' = e.items
           /\ ret' = e.ret
           /\ path' = e.path
           /\ assigned' = e.assigned
           /\ bdf_columns' = e.frame
    /\ UNCHANGED bulk_df
    /\ UNCHANGED <<normVars, asinVars, ruleVars, exportVars, cellVars>>

Next == NormalizeBulk \/ ProcessBulkFile \/ EnrichWithIds

Spec == Init /\ [][Next]_vars


(***************************************************************************)
(* SpecAsin: is_asin applied to one argument.                              *)
(***************************************************************************)
InitAsin ==
    /\ \/ asin_value \in NonStrings
       \/ \E p \in AsinPrefixes, n \in 0..MaxAsinBody, l \in 0..MaxPad, r \in 0..MaxPad :
             asin_value = [kind |-> "str", text |-> Blanks(l) \o p \o Filler(n) \o Blanks(r)]
    /\ asin_result = FALSE
    /\ asin_pc = "input"
    /\ IdleNorm /\ IdleBulk /\ IdleRule /\ IdleExport /\ IdleCell

IsAsin ==
    /\ asin_pc = "input"
    /\ asin_result' = is_asin(asin_value)
    /\ asin_pc' = "done"
    /\ UNCHANGED <<asin_value, normVars, bulkVars, ruleVars, exportVars, cellVars>>

NextAsin == IsAsin

SpecAsin == InitAsin /\ [][NextAsin]_vars

(***************************************************************************)
(* The rule-engine specifications: a search-term report is uploaded        *)
(* (process_search_term_report) and one classifier runs on the processed   *)
(* dataset.                                                                *)
(***************************************************************************)
\* the state after construction, for a report and the thresholds of a call
InitReport(layouts, rows, configs) ==
    /\ \E p \in layouts, rs \in SeqUpTo(rows, MaxPerfRows) : df = MkFrame(p, rs)
    /\ config \in configs
    /\ result = <<>>
    /\ previous = <<>>
    /\ rule_pc = "raw"
    /\ IdleNorm /\ IdleBulk /\ IdleAsin /\ IdleExport /\ IdleCell

\* process_search_term_report(df)
ProcessSearchTermReport ==
    /\ rule_pc = "raw"
    /\ df' = process_search_term_report(df)
    /\ rule_pc' = "processed"
    /\ UNCHANGED <<config, result, previous, normVars, bulkVars, asinVars, exportVars, cellVars>>

InitBleed == InitReport(BleedLayouts, BleedRows, BleedConfigs)

\* analyze_bleeding_spend(df, min_spend, min_clicks)
AnalyzeBleedingSpend ==
    /\ rule_pc = "processed"
    /\ result' = analyze_bleeding_spend(df, config.min_spend, config.min_clicks)
    /\ rule_pc' = "analyze_bleeding_spend"
    /\ UNCHANGED <<df, config, previous, normVars, bulkVars, asinVars, exportVars, cellVars>>

NextBleed == ProcessSearchTermReport \/ AnalyzeBleedingSpend

SpecBleed == InitBleed /\ [][NextBleed]_vars

InitHighAcos == InitReport(HighAcosLayouts, HighAcosRows, HighAcosConfigs)

\* analyze_high_acos(df, target_acos)
AnalyzeHighAcos ==
    /\ rule_pc = "processed"
    /\ result' = analyze_high_acos(df, config.target_acos)
    /\ rule_pc' = "analyze_high_acos"
    /\ UNCHANGED <<df, config, previous, normVars, bulkVars, asinVars, exportVars, cellVars>>

NextHighAcos == ProcessSearchTermReport \/ AnalyzeHighAcos

SpecHighAcos == InitHighAcos /\ [][NextHighAcos]_vars

InitScale == InitReport(ScaleLayouts, ScaleRows, ScaleConfigs)

\* analyze_scale_opportunities(df, target_acos, min_orders)
AnalyzeScaleOpportunities ==
    /\ rule_pc = "processed"
    /\ result' = analyze_scale_opportunities(df, config.target_acos, config.min_orders)
    /\ rule_pc' = "analyze_scale_opportunities"
    /\ UNCHANGED <<df, config, previous, normVars, bulkVars, asinVars, exportVars, cellVars>>

NextScale == ProcessSearchTermReport \/ AnalyzeScaleOpportunities

SpecScale == InitScale /\ [][NextScale]_vars

(***************************************************************************)
(* SpecBudget: a report is uploaded and analyze_budget_saturation runs on  *)
(* the processed dataset and the budgets of a bulk export.                 *)
(***************************************************************************)
InitBudget ==
    /\ \E p \in BudgetPerfLayouts, rs \in SeqUpTo(BudgetPerfRows, MaxPerfRows) :
          df = MkFrame(p, rs)
    /\ bulk_df \in BudgetDatasets
    /\ config = [target_acos |-> 0]
    /\ result = <<>>
    /\ previous = <<>>
    /\ rule_pc = "raw"
    /\ items = <<>> /\ before = <<>> /\ ret = 0 /\ path = "none" /\ assigned = {}
    /\ bdf_columns = <<>> /\ last_op = "none" /\ calls = 0
    /\ IdleNorm /\ IdleAsin /\ IdleExport /\ IdleCell

\* analyze_budget_saturation(df, bulk_df)
AnalyzeBudgetSaturation ==
    /\ rule_pc = "processed"
    /\ result' = analyze_budget_saturation(df, bulk_df)
    /\ rule_pc' = "analyze_budget_saturation"
    /\ UNCHANGED <<df, config, previous, normVars, bulkVars, asinVars, exportVars, cellVars>>

NextBudget == ProcessSearchTermReport \/ AnalyzeBudgetSaturation

SpecBudget == InitBudget /\ [][NextBudget]_vars

(***************************************************************************)
(* SpecHealth: a report is uploaded and calculate_health_score runs on the *)
(* processed dataset, at most MaxCalls times.                              *)
(***************************************************************************)
InitHealth == InitReport(HealthLayouts, HealthRows, {[target_acos |-> 0]})

\* calculate_health_score(df)
CalculateHealthScore ==
    /\ \/ rule_pc = "processed" /\ MaxCalls > 0 /\ previous' = previous
       \/ /\ rule_pc = "calculate_health_score"
          /\ Len(previous) + 1 < MaxCalls
          /\ previous' = Append(previous, result)
    /\ result' = calculate_health_score(df)
    /\ rule_pc' = "calculate_health_score"
    /\ UNCHANGED <<df, config, normVars, bulkVars, asinVars, exportVars, cellVars>>

NextHealth == ProcessSearchTermReport \/ CalculateHealthScore

SpecHealth == InitHealth /\ [][NextHealth]_vars

(***************************************************************************)
(* SpecNegatives: a list of records is turned into the rows of a bulk      *)
(* negatives file, by the generator itself or through export_negatives.    *)
(***************************************************************************)
InitNegatives ==
    /\ \E its \in SeqUpTo(NegItemSet, MaxItems), phrase \in BOOLEAN :
          request = [items |-> its, use_negative_phrase |-> phrase]
    /\ output = <<>>
    /\ export_pc = "request"
    /\ sessions = <<>>
    /\ IdleNorm /\ IdleBulk /\ IdleAsin /\ IdleRule /\ IdleCell

\* generate_negatives_bulk_file(selected_items, use_negative_phrase)
GenerateNegativesBulkFile ==
    /\ export_pc = "request"
    /\ output' = generate_negatives_bulk_file(request.items, request.use_negative_phrase)
    /\ export_pc' = "generate_negatives_bulk_file"
    /\ UNCHANGED <<request, sessions, normVars, bulkVars, asinVars, ruleVars, cellVars>>

\* POST /negatives with request.items (the records on screen)
ExportNegatives ==
    /\ export_pc = "request"
    /\ request.items # <<>>
    /\ output' = export_negatives(request)
    /\ export_pc' = "export_negatives"
    /\ UNCHANGED <<request, sessions, normVars, bulkVars, asinVars, ruleVars, cellVars>>

NextNegatives == GenerateNegativesBulkFile \/ ExportNegatives

SpecNegatives == InitNegatives /\ [][NextNegatives]_vars

(***************************************************************************)
(* New auto campaigns: one configuration, handed to the row builder, to    *)
(* the validation of one of its ad groups, or to the endpoint.             *)
(***************************************************************************)
InitCampaign ==
    /\ \E ags \in SeqUpTo(DictAdGroups, MaxAdGroups), p \in DictPlacements,
          portfolio \in {None, <<>>, <<"7","7">>} :
          request = CampaignConfig(portfolio, p, ags)
    /\ output = <<>>
    /\ export_pc = "request"
    /\ sessions = <<>>
    /\ IdleNorm /\ IdleBulk /\ IdleAsin /\ IdleRule /\ IdleCell

\* generate_auto_campaign_bulk_file(...) called with the configuration
GenerateAutoCampaignBulkFile ==
    /\ export_pc = "request"
    /\ output' = generate_auto_campaign_bulk_file(request)
    /\ export_pc' = "generate_auto_campaign_bulk_file"
    /\ UNCHANGED <<request, sessions, normVars, bulkVars, asinVars, ruleVars, cellVars>>

\* validate_ad_group_config(ad_group) called with one ad group of the configuration
ValidateAdGroupConfig ==
    /\ export_pc = "request"
    /\ \E k \in 1..Len(request.ad_groups) :
          output' = [ad_group |-> k, errors |-> validate_ad_group_config(request.ad_groups[k])]
    /\ export_pc' = "validate_ad_group_config"
    /\ UNCHANGED <<request, sessions, normVars, bulkVars, asinVars, ruleVars, cellVars>>

\* POST /auto-campaign with the configuration as the request body
ExportAutoCampaign ==
    /\ export_pc = "request"
    /\ output' = post_auto_campaign(request, SchemaValid(request))
    /\ export_pc' = "export_auto_campaign"
    /\ UNCHANGED <<request, sessions, normVars, bulkVars, asinVars, ruleVars, cellVars>>

NextCampaign == GenerateAutoCampaignBulkFile \/ ValidateAdGroupConfig \/ ExportAutoCampaign

SpecCampaign == InitCampaign /\ [][NextCampaign]_vars

(***************************************************************************)
(* The cell cleaners: one cell, handed to one of the three cleaners.       *)
(***************************************************************************)
InitClean ==
    /\ cell_value \in CellValues
    /\ cell_result = <<>>
    /\ cell_pc = "input"
    /\ IdleNorm /\ IdleBulk /\ IdleAsin /\ IdleRule /\ IdleExport

\* clean_integer(value)
CleanInteger ==
    /\ cell_pc = "input"
    /\ cell_result' = clean_integer_call(cell_value)
    /\ cell_pc' = "clean_integer"
    /\ UNCHANGED <<cell_value, normVars, bulkVars, asinVars, ruleVars, exportVars>>

\* clean_currency(value)
CleanCurrency ==
    /\ cell_pc = "input"
    /\ cell_result' = clean_currency_call(cell_value)
    /\ cell_pc' = "clean_currency"
    /\ UNCHANGED <<cell_value, normVars, bulkVars, asinVars, ruleVars, exportVars>>

\* clean_percentage(value)
CleanPercentage ==
    /\ cell_pc = "input"
    /\ cell_result' = clean_percentage_call(cell_value)
    /\ cell_pc' = "clean_percentage"
    /\ UNCHANGED <<cell_value, normVars, bulkVars, asinVars, ruleVars, exportVars>>

NextClean == CleanInteger \/ CleanCurrency \/ CleanPercentage

SpecClean == InitClean /\ [][NextClean]_vars

(***************************************************************************)
(* Incomplete reports: a report is uploaded and processed, and one of the  *)
(* five classifiers runs on it with the default thresholds.                *)
(***************************************************************************)
InitIncomplete ==
    /\ \E p \in IncompleteLayouts, rs \in SeqUpTo(IncompleteRows, MaxPerfRows) :
          df = MkFrame(p, rs)
    /\ bulk_df = IncompleteBudgets
    /\ config \in IncompleteConfigs
    /\ result = <<>>
    /\ previous = <<>>
    /\ rule_pc = "raw"
    /\ items = <<>> /\ before = <<>> /\ ret = 0 /\ path = "none" /\ assigned = {}
    /\ bdf_columns = <<>> /\ last_op = "none" /\ calls = 0
    /\ IdleNorm /\ IdleAsin /\ IdleExport /\ IdleCell

\* one classifier call on the processed report
RunClassifier ==
    /\ rule_pc = "processed"
    /\ \/ /\ result' = analyze_bleeding_spend(df, config.min_spend, config.min_clicks)
          /\ rule_pc' = "analyze_bleeding_spend"
       \/ /\ result' = analyze_high_acos_call(df, config.target_acos)
          /\ rule_pc' = "analyze_high_acos"
       \/ /\ result' = analyze_scale_opportunities_call(df, config.target_acos,
                                                        config.min_orders)
          /\ rule_pc' = "analyze_scale_opportunities"
       \/ /\ result' = analyze_budget_saturation(df, bulk_df)
          /\ rule_pc' = "analyze_budget_saturation"
       \/ /\ result' = calculate_health_score_call(df)
          /\ rule_pc' = "calculate_health_score"
    /\ UNCHANGED <<df, config, previous, normVars, bulkVars, asinVars, exportVars, cellVars>>

NextIncomplete == ProcessSearchTermReport \/ RunClassifier

SpecIncomplete == InitIncomplete /\ [][NextIncomplete]_vars

(***************************************************************************)
(* The lookup tables: a session whose bulk dataset has conflicting rows.   *)
(***************************************************************************)
InitLookup ==
    /\ \E p \in LookupProfiles, rs \in DistinctSeqs(LookupRows, MaxRows) :
          bulk_df = MkFrame(p, rs)
    /\ items \in DistinctSeqs(LookupItems, MaxItems)
    /\ before = items
    /\ ret = 0
    /\ path = "none"
    /\ assigned = {}
    /\ bdf_columns = <<>>
    /\ last_op = "none"
    /\ calls = 0
    /\ IdleNorm /\ IdleAsin /\ IdleRule /\ IdleExport /\ IdleCell

NextLookup == EnrichWithIds

SpecLookup == InitLookup /\ [][NextLookup]_vars

(***************************************************************************)
(* Upload: a search-term report is processed.                              *)
(***************************************************************************)
InitUpload == InitReport(UploadLayouts, UploadRows, {[target_acos |-> 0]})

NextUpload == ProcessSearchTermReport

SpecUpload == InitUpload /\ [][NextUpload]_vars

(***************************************************************************)
(* The datasets as objects: a session before processing (the uploads as    *)
(* they were read) on which the parser functions are called, or a session  *)
(* after it (the processed report and the budgets) on which the            *)
(* classifiers are called, in any order and any number of times.  df and   *)
(* bulk_df are the two dataset objects the calls are given; previous keeps *)
(* what each classifier returned first.                                    *)
(***************************************************************************)
\* the bulk exports of a session before processing
FrameBulks ==
    {MkFrame(p, rs) :
        p \in {q \in BulkProfiles : \E i \in 1..Len(q) : q[i][2] = "budget"},
        rs \in DistinctSeqs({r \in BulkRows : r.agid \in {NaN, <<"2","2","2",".","0">>}}, MaxRows)}

\* the reports of a session
FrameReports == {MkFrame(FullLayout, rs) : rs \in DistinctSeqs(IncompleteRows, MaxRows)}

InitFrame ==
    /\ \/ /\ df \in FrameReports
          /\ bulk_df \in FrameBulks
          /\ items \in DistinctSeqs(LookupItems, MaxItems)
          /\ rule_pc = "raw"
       \/ /\ df \in {process_search_term_report(d) : d \in FrameReports}
          /\ bulk_df \in {IncompleteBudgets, [columns |-> <<>>, rows |-> <<>>]}
          /\ items = <<>>
          /\ rule_pc = "processed"
    /\ config \in IncompleteConfigs
    /\ result = <<>>
    /\ previous = [name \in Classifiers |-> <<>>]
    /\ before = items /\ ret = 0 /\ path = "none" /\ assigned = {}
    /\ bdf_columns = <<>> /\ last_op = "none" /\ calls = 0
    /\ IdleNorm /\ IdleAsin /\ IdleExport /\ IdleCell

\* normalize_columns(df) or normalize_columns(bulk_df)
FrameNormalizeColumns ==
    /\ rule_pc = "raw"
    /\ \E arg \in {1, 2} :
          \E out \in {normalize_columns_on(<<df, bulk_df>>, arg)} :
             /\ df' = out.heap[1]
             /\ bulk_df' = out.heap[2]
             /\ result' = out.heap[out.ref]
    /\ last_op' = "normalize_columns"
    /\ UNCHANGED <<items, before, ret, path, assigned, bdf_columns, calls>>
    /\ UNCHANGED <<config, previous, rule_pc>>
    /\ UNCHANGED <<normVars, asinVars, exportVars, cellVars>>

\* process_search_term_report(df)
FrameProcessSearchTermReport ==
    /\ rule_pc = "raw"
    /\ \E out \in {process_search_term_report_on(<<df, bulk_df>>, 1)} :
          /\ df' = out.heap[1]
          /\ bulk_df' = out.heap[2]
          /\ result' = out.heap[out.ref]
    /\ last_op' = "process_search_term_report"
    /\ UNCHANGED <<items, before, ret, path, assigned, bdf_columns, calls>>
    /\ UNCHANGED <<config, previous, rule_pc>>
    /\ UNCHANGED <<normVars, asinVars, exportVars, cellVars>>

\* process_bulk_file(bulk_df)
FrameProcessBulkFile ==
    /\ rule_pc = "raw"
    /\ \E out \in {process_bulk_file_on(<<df, bulk_df>>, 2)} :
          /\ df' = out.heap[1]
          /\ bulk_df' = out.heap[2]
          /\ result' = out.ret
    /\ last_op' = "process_bulk_file"
    /\ UNCHANGED <<items, before, ret, path, assigned, bdf_columns, calls>>
    /\ UNCHANGED <<config, previous, rule_pc>>
    /\ UNCHANGED <<normVars, asinVars, exportVars, cellVars>>

\* enrich_with_ids(items, bulk_df)
FrameEnrichWithIds ==
    /\ rule_pc = "raw"
    /\ before' = items
    /\ \E out \in {enrich_with_ids_on(<<df, bulk_df>>, items, 2)} :
          /\ df' = out.heap[1]
          /\ bulk_df' = out.heap[2]
          /\ items' = out.ret.items
          /\ ret' = out.ret.ret
          /\ path' = out.ret.path
          /\ assigned' = out.ret.assigned
          /\ bdf_columns' = out.ret.frame
          /\ result' = out.ret.ret
    /\ last_op' = "enrich_with_ids"
    /\ UNCHANGED calls
    /\ UNCHANGED <<config, previous, rule_pc>>
    /\ UNCHANGED <<normVars, asinVars, exportVars, cellVars>>

\* one of the five classifiers is called on the processed report
FrameClassify ==
    /\ rule_pc # "raw"
    /\ \E name \in Classifiers :
          \E out \in {ClassifierOn(name, <<df, bulk_df>>, 1, 2, config)} :
             /\ df' = out.heap[1]
             /\ bulk_df' = out.heap[2]
             /\ result' = out.ret
             /\ rule_pc' = name
             /\ previous' = IF previous[name] = <<>>
                            THEN [previous EXCEPT ![name] = <<out.ret>>]
                            ELSE previous
    /\ UNCHANGED config
    /\ UNCHANGED <<items, before, ret, path, assigned, bdf_columns, last_op, calls>>
    /\ UNCHANGED <<normVars, asinVars, exportVars, cellVars>>

NextFrame ==
    \/ FrameNormalizeColumns
    \/ FrameProcessSearchTermReport
    \/ FrameProcessBulkFile
    \/ FrameEnrichWithIds
    \/ FrameClassify

SpecFrame == InitFrame /\ [][NextFrame]_vars

(***************************************************************************)
(* SpecRepeat: enrich_with_ids called on the records again, with the       *)
(* session's bulk dataset or with another one: an empty one, one that has  *)
(* no row for the records' campaigns, one that has other IDs for them.     *)
(***************************************************************************)
\* the other bulk datasets
OtherBulks ==
    { [columns |-> <<>>, rows |-> <<>>] } \cup
    { MkFrame(p, <<r>>) :
        p \in {q \in LookupProfiles : Len(q) = 6},
        r \in {x \in LookupRows : x.cid \in {<<"7","7","7">>, <<"9","9","9">>} /\ x.entity = <<"A","d"," ","G","r","o","u","p">>} }

\* enrich_with_ids(items, other) for another bulk dataset
EnrichWithOther ==
    /\ last_op \in {"none", "enrich_with_ids"}
    /\ calls < MaxCalls
    /\ last_op' = "enrich_with_other"
    /\ calls' = calls + 1
    /\ before' = items
    /\ \E other \in OtherBulks :
       \E e \in {enrich_with_ids(items, other)} :
           /\ items' = e.items
           /\ ret' = e.ret
           /\ path' = e.path
           /\ assigned' = e.assigned
           /\ bdf_columns' = e.frame
    /\ UNCHANGED bulk_df
    /\ UNCHANGED <<normVars, asinVars, ruleVars, exportVars, cellVars>>

\* the session: a bulk export with or without a true "Ad Group ID" column, of
\* the ad groups of Camp A and Camp B, and records of three types
InitRepeat ==
    /\ \E p \in {q \in BulkProfiles : q[2][2] = "cid" /\ q[4][2] = "pid" /\ Len(q) < 8},
          rs \in DistinctSeqs({r \in BulkRows : r.agid \in {<<"2","2","2",".","0">>, <<"4","4","4">>}}, MaxRows) :
          bulk_df = MkFrame(p, rs)
    /\ items \in DistinctSeqs({i \in ItemSet : i.kind # "HighACOSItem"}, MaxItems)
    /\ before = items
    /\ ret = 0
    /\ path = "none"
    /\ assigned = {}
    /\ bdf_columns = <<>>
    /\ last_op = "none"
    /\ calls = 0
    /\ IdleNorm /\ IdleAsin /\ IdleRule /\ IdleExport /\ IdleCell

NextRepeat == EnrichWithIds \/ EnrichWithOther

SpecRepeat == InitRepeat /\ [][NextRepeat]_vars

(***************************************************************************)
(* SpecExport: POST /negatives against a session store, with the records   *)
(* in the request or with the IDs of rows of the session.                  *)
(***************************************************************************)
InitExport ==
    /\ \E sid \in SessionIds, ids \in SeqUpTo(SelectableIds, MaxItems),
          its \in SeqUpTo({x \in NegItemSet : x.is_asin.present}, 1), phrase \in BOOLEAN :
          request = [session_id |-> sid, selected_ids |-> ids, items |-> its,
                     use_negative_phrase |-> phrase]
    /\ sessions \in SessionStores
    /\ output = <<>>
    /\ export_pc = "request"
    /\ IdleNorm /\ IdleBulk /\ IdleAsin /\ IdleRule /\ IdleCell

\* POST /negatives
PostNegatives ==
    /\ export_pc = "request"
    /\ output' \in post_negatives(request, sessions)
    /\ export_pc' = "post_negatives"
    /\ UNCHANGED <<request, sessions, normVars, bulkVars, asinVars, ruleVars, cellVars>>

NextExport == PostNegatives

SpecExport == InitExport /\ [][NextExport]_vars
(***************************************************************************)
(* Claims.                                                                 *)
(***************************************************************************)
\* C1: a header that is an alias of the canonical mapping in any letter case
\* and with any leading or trailing blanks is renamed to the alias's canonical
\* name; a header whose lower-cased, trimmed form is no alias is left as it
\* is, and so are the other headers of the dataset.
C1_AliasVariantsRenamed ==
    norm_pc = "normalized" =>
        /\ Len(out_columns) = Len(df_columns)
        /\ out_columns[1] = IF hdr_base \in DOMAIN COLUMN_MAPPINGS
                            THEN COLUMN_MAPPINGS[hdr_base]
                            ELSE df_columns[1]
        /\ \A i \in 2..Len(df_columns) : out_columns[i] = df_columns[i]

\* C1 witness: an alias written with upper-case letters and padded with
\* blanks was renamed to its canonical name.
C1_Witness ==
    /\ norm_pc = "normalized"
    /\ hdr_base \in DOMAIN COLUMN_MAPPINGS
    /\ Len(df_columns[1]) > Len(hdr_base)
    /\ Lower(df_columns[1]) # df_columns[1]
    /\ out_columns[1] = COLUMN_MAPPINGS[hdr_base]
    /\ out_columns[1] # df_columns[1]

\* the header "Ad Group" as the bulk export writes it
AdGroupHeader == <<"A","d"," ","G","r","o","u","p">>

\* C2: in bulk-file processing (normalize_columns, process_bulk_file, the
\* normalization inside enrich_with_ids) a header "Ad Group" of a dataset that
\* has an "Ad Group ID" column, or both "Ad Group" and "Ad Group Name", is
\* still "Ad Group" in the normalized frame, never "Ad Group Name".
C2_AdGroupHeaderKept ==
    (/\ last_op \in {"normalize_columns", "process_bulk_file", "enrich_with_ids"}
     /\ bdf_columns # <<>>
     /\ \/ HasCol(bulk_df.columns, <<"A","d"," ","G","r","o","u","p"," ","I","D">>)
        \/ HasCol(bulk_df.columns, AdGroupHeader) /\ HasCol(bulk_df.columns, <<"A","d"," ","G","r","o","u","p"," ","N","a","m","e">>))
    => \A i \in 1..Len(bulk_df.columns) :
          bulk_df.columns[i] = AdGroupHeader =>
              bdf_columns[i] = AdGroupHeader /\ bdf_columns[i] # <<"A","d"," ","G","r","o","u","p"," ","N","a","m","e">>

\* C2 witness: a dataset with both "Ad Group" and "Ad Group Name" went through
\* enrich_with_ids, "Ad Group" kept its name and served as the ID column.
C2_Witness ==
    /\ last_op = "enrich_with_ids"
    /\ HasCol(bulk_df.columns, AdGroupHeader)
    /\ HasCol(bulk_df.columns, <<"A","d"," ","G","r","o","u","p"," ","N","a","m","e">>)
    /\ HasCol(bdf_columns, AdGroupHeader)
    /\ \E i \in 1..Len(items) : <<i, "ad_group_id">> \in assigned

\* the identifier i with one trailing ".0" removed
WithoutDotZero(i) == IF EndsWith(i, <<".","0">>) THEN SubSeq(i, 1, Len(i) - 2) ELSE i

\* the cell of row r of the session's bulk dataset in the column called name
BulkCell(r, name) == bulk_df.rows[r][ColIndex(bulk_df.columns, name)]

\* row r of the bulk dataset is a full (Campaign Name, Campaign ID, Ad Group
\* Name, Ad Group ID) row with non-blank IDs
FullRow(r) ==
    /\ \A h \in {<<"C","a","m","p","a","i","g","n"," ","N","a","m","e">>, <<"C","a","m","p","a","i","g","n"," ","I","D">>, <<"A","d"," ","G","r","o","u","p"," ","N","a","m","e">>, <<"A","d"," ","G","r","o","u","p"," ","I","D">>} :
          HasCol(bulk_df.columns, h) /\ BulkCell(r, h) # NaN
    /\ Strip(BulkCell(r, <<"C","a","m","p","a","i","g","n"," ","I","D">>)) # <<>>
    /\ Strip(BulkCell(r, <<"A","d"," ","G","r","o","u","p"," ","I","D">>)) # <<>>

\* no other row of the dataset names the same campaign or the same ad group
\* (in its primary or informational name cells) with another ID
OnlyRowForItsKey(r) ==
    LET c == Strip(Lower(BulkCell(r, <<"C","a","m","p","a","i","g","n"," ","N","a","m","e">>)))
        a == Strip(Lower(BulkCell(r, <<"A","d"," ","G","r","o","u","p"," ","N","a","m","e">>)))
        names(q, hs) == {Strip(Lower(BulkCell(q, h))) :
                            h \in {x \in hs : HasCol(bulk_df.columns, x) /\ BulkCell(q, x) # NaN}}
        cnames(q) == names(q, {<<"C","a","m","p","a","i","g","n"," ","N","a","m","e">>, <<"C","a","m","p","a","i","g","n"," ","N","a","m","e"," ","(","I","n","f","o","r","m","a","t","i","o","n","a","l"," ","o","n","l","y",")">>})
        anames(q) == names(q, {<<"A","d"," ","G","r","o","u","p"," ","N","a","m","e">>, <<"A","d"," ","G","r","o","u","p"," ","N","a","m","e"," ","(","I","n","f","o","r","m","a","t","i","o","n","a","l"," ","o","n","l","y",")">>})
    IN  \A q \in 1..Len(bulk_df.rows) :
           /\ c \in cnames(q) =>
                 BulkCell(q, <<"C","a","m","p","a","i","g","n"," ","I","D">>) = BulkCell(r, <<"C","a","m","p","a","i","g","n"," ","I","D">>)
           /\ (c \in cnames(q) /\ a \in anames(q)) =>
                 BulkCell(q, <<"A","d"," ","G","r","o","u","p"," ","I","D">>) \in {NaN, BulkCell(r, <<"A","d"," ","G","r","o","u","p"," ","I","D">>)}

\* C3: for a bulk dataset holding a row (Campaign Name c, Campaign ID i, Ad
\* Group Name a, Ad Group ID g), the only one for its key, enrich_with_ids
\* gives every record whose campaign_name and ad_group_name equal c and a
\* after lower-casing and trimming campaign_id = i and ad_group_id = g, each
\* with one trailing ".0" removed.
C3_JoinGivesIds ==
    last_op = "enrich_with_ids" =>
        \A r \in 1..Len(bulk_df.rows) : (FullRow(r) /\ OnlyRowForItsKey(r)) =>
            \A k \in 1..Len(items) :
                (/\ items[k].ad_group_name # None
                 /\ Strip(Lower(items[k].campaign_name))
                        = Strip(Lower(BulkCell(r, <<"C","a","m","p","a","i","g","n"," ","N","a","m","e">>)))
                 /\ Strip(Lower(items[k].ad_group_name))
                        = Strip(Lower(BulkCell(r, <<"A","d"," ","G","r","o","u","p"," ","N","a","m","e">>))))
                => /\ items[k].campaign_id = WithoutDotZero(BulkCell(r, <<"C","a","m","p","a","i","g","n"," ","I","D">>))
                   /\ items[k].ad_group_id = WithoutDotZero(BulkCell(r, <<"A","d"," ","G","r","o","u","p"," ","I","D">>))

\* the lookup key of record k's campaign name
ItemCKey(k) == Strip(Lower(NameOf(before[k].campaign_name)))

\* the lookup key of record k's (campaign name, ad-group name) pair
ItemAKey(k) == <<ItemCKey(k), Strip(Lower(NameOf(before[k].ad_group_name)))>>

\* field f of record k was set by the call only if key is in the table d, and
\* then to the table's value; without a match it is as it was
SetOnlyFrom(k, f, d, key) ==
    /\ (items[k][f] # before[k][f] \/ <<k, f>> \in assigned)
          => (key \in DOMAIN d /\ items[k][f] = d[key])
    /\ key \notin DOMAIN d => items[k][f] = before[k][f]

\* every record's three ID fields were set only from the tables maps
AllSetOnlyFrom(maps) ==
    /\ Len(items) = Len(before)
    /\ \A k \in 1..Len(items) :
          /\ SetOnlyFrom(k, "campaign_id", maps.cid, ItemCKey(k))
          /\ SetOnlyFrom(k, "portfolio_id", maps.pid, ItemCKey(k))
          /\ SetOnlyFrom(k, "ad_group_id", maps.agid, ItemAKey(k))

\* C4: after enrich_with_ids a record has a campaign_id, portfolio_id or
\* ad_group_id set by the call only if its key is in the corresponding lookup
\* table of the bulk dataset, and then the field holds the table's value; a
\* record without a match keeps the field as it was (absent), no placeholder.
C4_OnlyMatchesSet ==
    last_op = "enrich_with_ids" => AllSetOnlyFrom(BuildLookups(bulk_df))

\* C4 witness: one call gave one record its campaign_id and left another,
\* whose campaign is in no table, without one.
C4_Witness ==
    /\ last_op = "enrich_with_ids"
    /\ calls = 1
    /\ \E k \in 1..Len(items) : <<k, "campaign_id">> \in assigned
    /\ \E k \in 1..Len(items) :
          /\ ItemCKey(k) \notin DOMAIN BuildLookups(bulk_df).cid
          /\ items[k].campaign_id = None
          /\ items[k].ad_group_id = None

\* C5: the integer enrich_with_ids returns equals the number of records that
\* received an ad_group_id in that call, for every call that ends without an
\* internal error (the early return and the normal return).
C5_CountIsAssigned ==
    (last_op = "enrich_with_ids" /\ path # "error") =>
        ret = Cardinality({k \in 1..Len(items) : <<k, "ad_group_id">> \in assigned})

\* the three ID fields of a record
IdsOf(item) == <<item.campaign_id, item.portfolio_id, item.ad_group_id>>

\* C6: whenever enrich_with_ids ends through its error path it returns 0 and
\* the records are unenriched: no record carries an ID it did not have before.
C6_ErrorPathUnenriched ==
    (last_op = "enrich_with_ids" /\ path = "error") =>
        /\ ret = 0
        /\ \A k \in 1..Len(items) : IdsOf(items[k]) = IdsOf(before[k])


\* C7 as stated: is_asin(s) is true exactly when s is a str of 10 characters
\* that begins with "b0" in any letter case.
C7_TenCharsB0 ==
    asin_pc = "done" =>
        asin_result = (/\ asin_value.kind = "str"
                       /\ Len(asin_value.text) = 10
                       /\ StartsWith(Lower(asin_value.text), <<"b","0">>))

\* the text t has 10 characters, the first "b" or "B", the second "0"
TenCharsB0(t) == Len(t) = 10 /\ t[1] \in {"b", "B"} /\ t[2] = "0"

\* C7 amended: is_asin(s) is true exactly when s is a str whose trimmed form
\* (leading and trailing white space removed) has 10 characters and begins
\* with "b0" in any letter case; every other value gives false.
C7_TrimmedTenCharsB0 ==
    asin_pc = "done" =>
        asin_result = (asin_value.kind = "str" /\ TenCharsB0(Strip(asin_value.text)))

\* C7 witness: a padded text of more than 10 characters was accepted, and so
\* was decided on its trimmed form.
C7_Witness ==
    /\ asin_pc = "done"
    /\ asin_value.kind = "str"
    /\ Len(asin_value.text) > 10
    /\ asin_result

\* the targeting expression t is a product ID: a 10-character token beginning
\* with "b0" in any letter case
IsProductId(t) == t # NaN /\ Len(t) = 10 /\ StartsWith(Lower(t), <<"b","0">>)

\* the index labels of the rows the bleeding-spend rule names
BleedingExpected ==
    {r - 1 : r \in {q \in 1..Len(df.rows) :
        /\ Cell(df, q, <<"S","p","e","n","d">>).v >= config.min_spend
        /\ Cell(df, q, <<"S","a","l","e","s">>).v = 0
        /\ Cell(df, q, <<"C","l","i","c","k","s">>).v >= config.min_clicks
        /\ Cell(df, q, <<"M","a","t","c","h"," ","T","y","p","e">>) # <<"E","x","a","c","t">>
        /\ HasCol(df.columns, <<"T","a","r","g","e","t","i","n","g">>) => ~IsProductId(Cell(df, q, <<"T","a","r","g","e","t","i","n","g">>))}}

\* the id fields of a sequence of records
IdsIn(records) == {records[i].id : i \in 1..Len(records)}

\* C8: when analyze_bleeding_spend returns (its required columns present), it
\* returns one record for exactly the rows with spend >= min_spend, sales = 0,
\* clicks >= min_clicks, match type other than "Exact" and a targeting
\* expression that is no product ID; a targeting that begins with "b0" and is
\* not 10 characters long does not keep a row out.
C8_FlaggedRows ==
    (/\ rule_pc = "analyze_bleeding_spend"
     /\ ~result.raised
     /\ \A c \in BleedingRequired : HasCol(df.columns, c))
    => /\ IdsIn(result.records) = BleedingExpected
       /\ Len(result.records) = Cardinality(BleedingExpected)

\* x < 0.7 * avg with the percentage x read as a rate: x.v / 10000 < 0.7 * num / den
RateBelowSeventyPercent(x, avg) == x.v * avg.den < avg.num * 7000

\* the root cause and action the precedence gives row r when its CVR and CTR
\* are on the scale of the account averages
ExpectedDiagnosis(r) ==
    LET avg == AccountAverages(df)
        ctr == CellOr(df, r, <<"C","T","R">>, Num(0))
        cpc == CellOr(df, r, <<"C","P","C">>, Num(0))
        cvr == CellOr(df, r, <<"C","o","n","v","e","r","s","i","o","n"," ","R","a","t","e">>, Num(0))
    IN  IF RateBelowSeventyPercent(cvr, avg.avg_cvr)
        THEN <<"Low CVR", "Review Listing/Target">>
        ELSE IF cpc.v * avg.avg_cpc.den * 10 > avg.avg_cpc.num * 13
        THEN <<"High CPC", "Bid Down">>
        ELSE IF RateBelowSeventyPercent(ctr, avg.avg_ctr)
        THEN <<"Low CTR", "Negative">>
        ELSE <<"General Efficiency", "Optimization">>

\* C9: every record analyze_high_acos returns has the root cause and action of
\* the fixed precedence (Low CVR, then High CPC, then Low CTR, then General
\* Efficiency with value and benchmark 0), the row's CVR and CTR compared with
\* the account averages on the same scale.
C9_RootCausePrecedence ==
    rule_pc = "analyze_high_acos" =>
        \A i \in 1..Len(result) :
            /\ <<result[i].root_cause, result[i].action_type>>
                  = ExpectedDiagnosis(result[i].id + 1)
            /\ result[i].root_cause = "General Efficiency"
                  => result[i].value.v = 0 /\ result[i].avg_value.num = 0

\* the index labels of the rows the scale rule names
ScaleExpected ==
    {r - 1 : r \in {q \in 1..Len(df.rows) :
        /\ ~Cell(df, q, <<"A","C","O","S">>).nan
        /\ Cell(df, q, <<"A","C","O","S">>).v * 10 <= config.target_acos * 8
        /\ Cell(df, q, <<"O","r","d","e","r","s">>).v >= config.min_orders}}

\* C10: analyze_scale_opportunities returns one record for exactly the rows
\* with ACOS <= 0.8 x target_acos and orders >= min_orders, a row with a null
\* ACOS never among them, in non-increasing order of orders.
C10_ScaleSelection ==
    (/\ rule_pc = "analyze_scale_opportunities"
     /\ HasCol(df.columns, <<"A","C","O","S">>) /\ HasCol(df.columns, <<"O","r","d","e","r","s">>))
    => /\ IdsIn(result) = ScaleExpected
       /\ Len(result) = Cardinality(ScaleExpected)
       /\ \A i \in 1..Len(result) : ~Cell(df, result[i].id + 1, <<"A","C","O","S">>).nan
       /\ \A i, j \in 1..Len(result) : i < j => result[i].orders >= result[j].orders

\* C10 witness: two rows were selected and returned in the reverse of their
\* row order, the one with more orders first, while a row with a null ACOS and
\* enough orders stayed out.
C10_Witness ==
    /\ rule_pc = "analyze_scale_opportunities"
    /\ Len(result) = 2
    /\ result[1].id > result[2].id
    /\ result[1].orders > result[2].orders
    /\ \E r \in 1..Len(df.rows) :
          /\ Cell(df, r, <<"A","C","O","S">>).nan
          /\ Cell(df, r, <<"O","r","d","e","r","s">>).v >= config.min_orders

\* the sum of the column name over the rows in the set rs of the report
RECURSIVE TotalOver(_, _)
TotalOver(rs, name) ==
    IF rs = {} THEN 0
    ELSE LET r == CHOOSE q \in rs : TRUE
         IN  Cell(df, r, name).v + TotalOver(rs \ {r}, name)

\* the rows of the report for the campaign c
RowsOfCampaign(c) == {r \in 1..Len(df.rows) : Cell(df, r, <<"C","a","m","p","a","i","g","n"," ","N","a","m","e">>) = c}

\* the record x is for a campaign of the report that has a budget row with a
\* daily budget > 0, and its ACOS is that of the campaign and below 30
SaturationRecordOk(x) ==
    LET rs == RowsOfCampaign(x.campaign_name)
        spend == TotalOver(rs, <<"S","p","e","n","d">>)
        sales == TotalOver(rs, <<"S","a","l","e","s">>)
    IN  /\ rs # {}
        /\ \E k \in 1..Len(bulk_df.rows) :
              /\ Cell(bulk_df, k, <<"C","a","m","p","a","i","g","n"," ","N","a","m","e">>) = x.campaign_name
              /\ Cell(bulk_df, k, <<"D","a","i","l","y"," ","B","u","d","g","e","t">>) = x.daily_budget
        /\ x.daily_budget > 0
        /\ x.spend = spend
        /\ IF sales = 0 THEN x.acos.num = 0
           ELSE x.acos.num * sales = 100 * spend * x.acos.den
        /\ x.acos.num < 30 * x.acos.den

NonNegativeAmounts ==
    \A r \in 1..Len(df.rows) :
        /\ HasCol(df.columns, <<"S","p","e","n","d">>) => Cell(df, r, <<"S","p","e","n","d">>).v >= 0
        /\ HasCol(df.columns, <<"S","a","l","e","s">>) => Cell(df, r, <<"S","a","l","e","s">>).v >= 0

\* the dataset has rows and the columns of the score, and no row has spend
AllZeroSpend ==
    /\ Len(df.rows) > 0
    /\ \A c \in { <<"S","p","e","n","d">>, <<"S","a","l","e","s">>, <<"M","a","t","c","h"," ","T","y","p","e">> } : HasCol(df.columns, c)
    /\ \A r \in 1..Len(df.rows) : Cell(df, r, <<"S","p","e","n","d">>).v = 0

\* the score and the three sub-scores of h lie in [0, 100]
ScoresInRange(h) ==
    /\ h.score \in 0..100
    /\ h.spend_efficiency_score \in 0..100
    /\ h.acos_stability_score \in 0..100
    /\ h.exact_match_score \in 0..100

\* no ratio of h is the result of a division by zero
FullyDefined(h) == h.details.waste_ratio.den > 0 /\ h.details.overall_acos.den > 0

\* C12: calculate_health_score returns the same value on every call for the
\* same dataset; for a dataset whose spend and sales values are non-negative
\* the score and each of the three sub-scores lie in [0, 100]; for a dataset
\* whose spend values are all zero the score is fully defined (no division by
\* zero).
C12_HealthScoreBounded ==
    rule_pc = "calculate_health_score" =>
        /\ \A i \in 1..Len(previous) : previous[i] = result
        /\ NonNegativeAmounts => ScoresInRange(result)
        /\ AllZeroSpend => FullyDefined(result) /\ ScoresInRange(result)

\* C12 witness: a second call on a dataset whose rows have no spend but sales:
\* efficiency 100, exact share 0, ACOS score 100, score 70.
C12_Witness ==
    /\ rule_pc = "calculate_health_score"
    /\ Len(previous) = 1
    /\ AllZeroSpend
    /\ result.score = 70
    /\ result.spend_efficiency_score = 100
    /\ result.exact_match_score = 0
    /\ result.acos_stability_score = 100

\* the search term of the record i of the request
TermOfRecord(i) ==
    IF i.customer_search_term # Absent THEN i.customer_search_term
    ELSE IF i.search_term # Absent THEN i.search_term
    ELSE <<>>

\* C13: the rows built from N records are N rows in the order of the records,
\* and the Entity of a row is "Negative Product Targeting" if and only if the
\* search term of its record satisfies is_asin, otherwise "Negative Keyword",
\* whether or not the record carries an is_asin flag.
C13_EntityByPattern ==
    export_pc \in {"generate_negatives_bulk_file", "export_negatives"} =>
        /\ Len(output) = Len(request.items)
        /\ \A k \in 1..Len(output) :
              IF is_asin([kind |-> "str", text |-> TermOfRecord(request.items[k])])
              THEN output[k].Entity = <<"N","e","g","a","t","i","v","e"," ","P","r","o","d","u","c","t"," ","T","a","r","g","e","t","i","n","g">>
              ELSE output[k].Entity = <<"N","e","g","a","t","i","v","e"," ","K","e","y","w","o","r","d">>

\* the rows are N rows and follow the flag of their record, a missing flag
\* computed from the term by export_negatives
C13_EntityByFlag ==
    export_pc = "export_negatives" =>
        /\ Len(output) = Len(request.items)
        /\ \A k \in 1..Len(output) :
              LET i == request.items[k]
                  flag == IF i.is_asin.present THEN i.is_asin.value
                          ELSE is_asin([kind |-> "str", text |-> TermOfRecord(i)])
              IN  IF flag THEN output[k].Entity = <<"N","e","g","a","t","i","v","e"," ","P","r","o","d","u","c","t"," ","T","a","r","g","e","t","i","n","g">>
                  ELSE output[k].Entity = <<"N","e","g","a","t","i","v","e"," ","K","e","y","w","o","r","d">>

(***************************************************************************)
(* C14                                                                     *)
(***************************************************************************)
\* the placements of a configuration in the order Top, Product Page, Rest Of Search
PlacementsInOrder(p) ==
    <<[placement |-> <<"P","l","a","c","e","m","e","n","t"," ","T","o","p">>, percentage |-> p.top_of_search],
      [placement |-> <<"P","l","a","c","e","m","e","n","t"," ","P","r","o","d","u","c","t"," ","P","a","g","e">>, percentage |-> p.product_pages],
      [placement |-> <<"P","l","a","c","e","m","e","n","t"," ","R","e","s","t"," ","O","f"," ","S","e","a","r","c","h">>, percentage |-> p.rest_of_search]>>

IsPositive(e) == e.percentage.kind = "number" /\ e.percentage.v > 0

PositivePlacements(p) == IF p.none THEN <<>> ELSE SelectSeq(PlacementsInOrder(p), IsPositive)

NonBlankSku(sku) == sku # None /\ \E i \in 1..Len(sku) : ~IsSpace(sku[i])

NonBlankSkus(ag) == SelectSeq(ag.skus.value, NonBlankSku)

\* the targeting types of an ad group in the order close-match, loose-match,
\* substitutes, complements
TypesInOrder(ag) ==
    <<[type |-> <<"c","l","o","s","e","-","m","a","t","c","h">>, on |-> ag.close_match],
      [type |-> <<"l","o","o","s","e","-","m","a","t","c","h">>, on |-> ag.loose_match],
      [type |-> <<"s","u","b","s","t","i","t","u","t","e","s">>, on |-> ag.substitutes],
      [type |-> <<"c","o","m","p","l","e","m","e","n","t","s">>, on |-> ag.complements]>>

IsOn(e) == e.on.present /\ e.on.value

EnabledTypes(ag) == SelectSeq(TypesInOrder(ag), IsOn)

\* the number of rows of the first k ad groups
RECURSIVE RowsOfFirst(_, _)
RowsOfFirst(ad_groups, k) ==
    IF k = 0 THEN 0
    ELSE RowsOfFirst(ad_groups, k - 1)
         + 1 + Len(NonBlankSkus(ad_groups[k])) + Len(EnabledTypes(ad_groups[k]))

BlockName(ag) == IF ag.ad_group_name = Absent THEN <<>> ELSE ag.ad_group_name

\* rows[base + 1 ..] are the rows of the ad group, in order, all carrying its name
AdGroupBlockAt(rows, base, ag) ==
    LET skus == NonBlankSkus(ag)
        types == EnabledTypes(ag)
    IN  /\ rows[base + 1].Entity = <<"A","d"," ","G","r","o","u","p">>
        /\ rows[base + 1].AdGroupName = BlockName(ag)
        /\ \A i \in 1..Len(skus) :
              /\ rows[base + 1 + i].Entity = <<"P","r","o","d","u","c","t"," ","A","d">>
              /\ rows[base + 1 + i].AdGroupName = BlockName(ag)
              /\ rows[base + 1 + i].SKU = Strip(skus[i])
        /\ \A i \in 1..Len(types) :
              /\ rows[base + 1 + Len(skus) + i].Entity = <<"P","r","o","d","u","c","t"," ","T","a","r","g","e","t","i","n","g">>
              /\ rows[base + 1 + Len(skus) + i].AdGroupName = BlockName(ag)
              /\ rows[base + 1 + Len(skus) + i].KeywordText
                     = <<"a","u","t","o","-","t","a","r","g","e","t","i","n","g","=">> \o types[i].type

RowOrder(rows, cfg) ==
    LET adj == PositivePlacements(cfg.placement_bid_adjustment)
        ags == cfg.ad_groups
    IN  /\ Len(rows) = 1 + Len(adj) + RowsOfFirst(ags, Len(ags))
        /\ rows[1].Entity = <<"C","a","m","p","a","i","g","n">>
        /\ \A i \in 2..Len(rows) : rows[i].Entity # <<"C","a","m","p","a","i","g","n">>
        /\ \A i \in 1..Len(adj) :
              /\ rows[1 + i].Entity = <<"B","i","d","d","i","n","g"," ","A","d","j","u","s","t","m","e","n","t">>
              /\ rows[1 + i].Placement = adj[i].placement
              /\ rows[1 + i].Percentage = <<adj[i].percentage.v>>
        /\ \A k \in 1..Len(ags) :
              AdGroupBlockAt(rows, 1 + Len(adj) + RowsOfFirst(ags, k - 1), ags[k])

\* C14: the rows generate_auto_campaign_bulk_file emits are, in this order: one
\* Campaign row; one Bidding Adjustment row per placement whose percentage is
\* above 0, in the order Top, Product Page, Rest Of Search; then for each ad
\* group in input order, as one uninterrupted block, its Ad Group row, one
\* Product Ad row per non-blank SKU in input order, and one Product Targeting
\* row per enabled type in the order close-match, loose-match, substitutes,
\* complements
C14_RowOrder ==
    export_pc = "generate_auto_campaign_bulk_file" => RowOrder(output, request)

\* two ad groups, the first with a blank SKU between two kept ones and with
\* only the second and fourth type enabled, after two bidding adjustment rows
C14_Witness ==
    /\ export_pc = "generate_auto_campaign_bulk_file"
    /\ Len(request.ad_groups) = 2
    /\ Len(PositivePlacements(request.placement_bid_adjustment)) = 2
    /\ Len(request.ad_groups[1].skus.value) = 3
    /\ Len(NonBlankSkus(request.ad_groups[1])) = 2
    /\ Len(EnabledTypes(request.ad_groups[1])) = 2
    /\ Len(EnabledTypes(request.ad_groups[2])) = 4
    /\ Len(output) = 14

(***************************************************************************)
(* C15                                                                     *)
(***************************************************************************)
NameMissing(ag) == ag.ad_group_name = Absent \/ ag.ad_group_name = <<>>

BidTooLow(ag) == ag.default_bid.kind = "absent" \/ ag.default_bid.v < 2

NothingEnabled(ag) == Len(EnabledTypes(ag)) = 0

\* the message of each rule the ad group violates
ViolatedRules(ag) ==
    (IF NameMissing(ag) THEN {<<"A","d"," ","g","r","o","u","p"," ","n","a","m","e"," ","i","s"," ","r","e","q","u","i","r","e","d">>} ELSE {})
    \cup (IF BidTooLow(ag) THEN {<<"D","e","f","a","u","l","t"," ","b","i","d"," ","m","u","s","t"," ","b","e"," ","a","t"," ","l","e","a","s","t"," ","$","0",".","0","2">>} ELSE {})
    \cup (IF NothingEnabled(ag) THEN {<<"A","t"," ","l","e","a","s","t"," ","o","n","e"," ","t","a","r","g","e","t","i","n","g"," ","t","y","p","e"," ","m","u","s","t"," ","b","e"," ","e","n","a","b","l","e","d">>} ELSE {})

\* text has part as a contiguous piece
Contains(text, part) ==
    \E i \in 1..(Len(text) - Len(part) + 1) : SubSeq(text, i, i + Len(part) - 1) = part

\* the number written in front of the errors of the k-th ad group (k < 10)
AdGroupLabel(k) ==
    <<"A","d"," ","G","r","o","u","p"," ">> \o <<CHOOSE c \in Range(DigitChar) : DigitChar[k + 1] = c>> \o <<":"," ">>

\* validate_ad_group_config returned exactly the messages of the violated rules
ValidationCollectsAll ==
    export_pc = "validate_ad_group_config" =>
        LET ag == request.ad_groups[output.ad_group]
        IN  /\ Range(output.errors) = ViolatedRules(ag)
            /\ Len(output.errors) = Cardinality(ViolatedRules(ag))

\* the handler's one rejection names every violated rule of every ad group,
\* and no file is built when an ad group has an error
RejectionCollectsAll ==
    export_pc = "export_auto_campaign" =>
        LET ags == request.ad_groups
            bad == {k \in 1..Len(ags) : ViolatedRules(ags[k]) # {}}
        IN  /\ bad # {} => output.rows = <<>> /\ output.status_code # 200
            /\ output.status_code = 200 <=> (bad = {} /\ SchemaValid(request))
            /\ output.status_code = 200 => output.rows = generate_auto_campaign_bulk_file(request)
            /\ (bad # {} /\ SchemaValid(request)) =>
                  /\ output.status_code = 400
                  /\ \A k \in bad : \A msg \in ViolatedRules(ags[k]) :
                        Contains(output.detail, AdGroupLabel(k) \o msg)

RemovedBy(cleaner) ==
    IF cleaner = "clean_currency" THEN {"$", ","}
    ELSE IF cleaner = "clean_percentage" THEN {"%", ","}
    ELSE {","}

\* the cell is a finite number, or a text that reads as one for the cleaner
IsFiniteNumber(value, cleaner) ==
    \/ value.kind = "number" /\ value.x.special = ""
    \/ /\ value.kind = "str"
       /\ LET p == ParseFloat(Strip(RemoveChars(value.text, RemovedBy(cleaner))))
          IN  p.ok /\ p.x.special = ""

\* the cleaner returned its default: None for clean_percentage, 0 for the others
IsDefault(r, cleaner) ==
    /\ ~r.raised
    /\ IF cleaner = "clean_percentage" THEN r.none ELSE ~r.none /\ r.x = Finite(0)

\* C16: clean_integer, clean_currency and clean_percentage raise for no cell, and
\* a cell that is absent or does not read as a number (the text "inf" and an
\* infinite float included) becomes the default: 0 for clean_integer and
\* clean_currency, None for clean_percentage
C16_CleanersDefault ==
    cell_pc # "input" =>
        /\ ~cell_result.raised
        /\ ~IsFiniteNumber(cell_value, cell_pc) => IsDefault(cell_result, cell_pc)

\* what does hold: a cell that is null, of another type, or a text float()
\* refuses becomes the default
C16_RefusedTextDefault ==
    (/\ cell_pc # "input"
     /\ \/ cell_value.kind \in {"null", "other"}
        \/ /\ cell_value.kind = "str"
           /\ ~ParseFloat(Strip(RemoveChars(cell_value.text, RemovedBy(cell_pc)))).ok)
    => IsDefault(cell_result, cell_pc)

(***************************************************************************)
(* C17                                                                     *)
(***************************************************************************)
\* the columns each classifier reads
ColumnsRead(classifier) ==
    IF classifier = "analyze_bleeding_spend"
    THEN { <<"S","p","e","n","d">>, <<"S","a","l","e","s">>, <<"C","l","i","c","k","s">>, <<"M","a","t","c","h"," ","T","y","p","e">>, <<"T","a","r","g","e","t","i","n","g">>,
           <<"C","u","s","t","o","m","e","r"," ","S","e","a","r","c","h"," ","T","e","r","m">>, <<"C","a","m","p","a","i","g","n"," ","N","a","m","e">>, <<"A","d"," ","G","r","o","u","p"," ","N","a","m","e">> }
    ELSE IF classifier = "analyze_high_acos"
    THEN { <<"I","m","p","r","e","s","s","i","o","n","s">>, <<"C","l","i","c","k","s">>, <<"S","p","e","n","d">>, <<"O","r","d","e","r","s">>, <<"A","C","O","S">>, <<"C","T","R">>, <<"C","P","C">>,
           <<"C","o","n","v","e","r","s","i","o","n"," ","R","a","t","e">>, <<"C","u","s","t","o","m","e","r"," ","S","e","a","r","c","h"," ","T","e","r","m">>, <<"T","a","r","g","e","t","i","n","g">>, <<"M","a","t","c","h"," ","T","y","p","e">>,
           <<"C","a","m","p","a","i","g","n"," ","N","a","m","e">>, <<"S","a","l","e","s">> }
    ELSE IF classifier = "analyze_scale_opportunities"
    THEN { <<"A","C","O","S">>, <<"O","r","d","e","r","s">>, <<"C","P","C">>, <<"C","u","s","t","o","m","e","r"," ","S","e","a","r","c","h"," ","T","e","r","m">>, <<"T","a","r","g","e","t","i","n","g">>,
           <<"M","a","t","c","h"," ","T","y","p","e">>, <<"C","a","m","p","a","i","g","n"," ","N","a","m","e">>, <<"C","o","n","v","e","r","s","i","o","n"," ","R","a","t","e">> }
    ELSE IF classifier = "analyze_budget_saturation"
    THEN { <<"C","a","m","p","a","i","g","n"," ","N","a","m","e">>, <<"S","p","e","n","d">>, <<"S","a","l","e","s">> }
    ELSE { <<"S","p","e","n","d">>, <<"S","a","l","e","s">>, <<"M","a","t","c","h"," ","T","y","p","e">> }

\* the columns without which each classifier returns at once
ColumnsRequired(classifier) ==
    IF classifier = "analyze_bleeding_spend"
    THEN { <<"S","p","e","n","d">>, <<"S","a","l","e","s">>, <<"C","l","i","c","k","s">>, <<"M","a","t","c","h"," ","T","y","p","e">> }
    ELSE IF classifier = "analyze_high_acos" THEN { <<"A","C","O","S">>, <<"S","p","e","n","d">> }
    ELSE IF classifier = "analyze_scale_opportunities" THEN { <<"A","C","O","S">>, <<"O","r","d","e","r","s">> }
    ELSE IF classifier = "analyze_budget_saturation"
    THEN { <<"C","a","m","p","a","i","g","n"," ","N","a","m","e">>, <<"S","p","e","n","d">>, <<"S","a","l","e","s">> }
    ELSE { <<"S","p","e","n","d">>, <<"S","a","l","e","s">>, <<"M","a","t","c","h"," ","T","y","p","e">> }

ClassifierRan == rule_pc \notin {"raw", "processed"}

Lacks(columns) == IsEmptyDf(df) \/ \E c \in columns : ~HasCol(df.columns, c)

\* the worst case the claim allows: no records, or a score of zeros
WorstCase ==
    IF rule_pc = "calculate_health_score"
    THEN /\ result.records[1].score = 0
         /\ result.records[1].spend_efficiency_score = 0
         /\ result.records[1].acos_stability_score = 0
         /\ result.records[1].exact_match_score = 0
    ELSE result.records = <<>>

\* C17: on a performance dataset that is empty or lacks a column the classifier
\* reads, none of the five classifiers raises; the four list classifiers return
\* an empty list and calculate_health_score returns zero for the score and
\* every sub-score when a column they cannot do without is missing
C17_NothingFatal ==
    /\ (ClassifierRan /\ Lacks(ColumnsRead(rule_pc))) => ~result.raised
    /\ (ClassifierRan /\ Lacks(ColumnsRequired(rule_pc))) => WorstCase

\* what does hold: without a column the classifier cannot do without, nothing
\* is raised and the worst case is returned
C17_RequiredMissing ==
    (ClassifierRan /\ Lacks(ColumnsRequired(rule_pc))) => ~result.raised /\ WorstCase

(***************************************************************************)
(* C18                                                                     *)
(***************************************************************************)
\* enrich_with_ids built its lookup tables in the call that ran last
LookupsBuilt == last_op = "enrich_with_ids" /\ path # "early"

Bdf == PreparedFrame(bulk_df)

\* the tables as they are after the scans of the primary columns alone
PrimaryCampaignMaps ==
    IF HasCol(Bdf.columns, <<"C","a","m","p","a","i","g","n"," ","N","a","m","e">>) /\ HasCol(Bdf.columns, <<"C","a","m","p","a","i","g","n"," ","I","D">>)
    THEN CampaignScan([cid |-> EmptyMap, pid |-> EmptyMap], Bdf, <<"C","a","m","p","a","i","g","n"," ","N","a","m","e">>)
    ELSE [cid |-> EmptyMap, pid |-> EmptyMap]

PrimaryAgMap ==
    IF /\ HasCol(Bdf.columns, AgIdCol(Bdf.columns))
       /\ HasCol(Bdf.columns, <<"C","a","m","p","a","i","g","n"," ","N","a","m","e">>) /\ HasCol(Bdf.columns, <<"A","d"," ","G","r","o","u","p"," ","N","a","m","e">>)
    THEN AgScan(EmptyMap, Bdf, <<"C","a","m","p","a","i","g","n"," ","N","a","m","e">>, <<"A","d"," ","G","r","o","u","p"," ","N","a","m","e">>)
    ELSE EmptyMap

\* every entry of the table `primary' is in the table `final' with the same value
Kept(primary, final) ==
    \A k \in DOMAIN primary : k \in DOMAIN final /\ final[k] = primary[k]

\* C18: in the lookup tables enrich_with_ids builds, a campaign ID, portfolio ID
\* or ad-group ID set from the primary columns (Campaign Name, Ad Group Name) is
\* not overwritten from the informational-only columns: those only add keys
C18_PrimaryNotOverwritten ==
    LookupsBuilt =>
        /\ Kept(PrimaryCampaignMaps.cid, BuildLookups(bulk_df).cid)
        /\ Kept(PrimaryCampaignMaps.pid, BuildLookups(bulk_df).pid)
        /\ Kept(PrimaryAgMap, BuildLookups(bulk_df).agid)

(***************************************************************************)
(* C19                                                                     *)
(***************************************************************************)
\* the rows of the primary columns that can set the campaign ID of key k,
\* and the ad-group ID of the pair k, by position in the dataset
CampaignRowsOf(k) ==
    {r \in 1..Len(Bdf.rows) :
        LET row == Bdf.rows[r]
            name == row[ColIndex(Bdf.columns, <<"C","a","m","p","a","i","g","n"," ","N","a","m","e">>)]
        IN  /\ name # NaN /\ NameKey(name) = k
            /\ row[ColIndex(Bdf.columns, <<"C","a","m","p","a","i","g","n"," ","I","D">>)] # NaN}

AdGroupRowsOf(k) ==
    {r \in 1..Len(Bdf.rows) :
        LET row == Bdf.rows[r]
            cn == row[ColIndex(Bdf.columns, <<"C","a","m","p","a","i","g","n"," ","N","a","m","e">>)]
            an == row[ColIndex(Bdf.columns, <<"A","d"," ","G","r","o","u","p"," ","N","a","m","e">>)]
        IN  /\ cn # NaN /\ an # NaN /\ <<NameKey(cn), NameKey(an)>> = k
            /\ row[ColIndex(Bdf.columns, AgIdCol(Bdf.columns))] # NaN}

First(S) == CHOOSE r \in S : \A q \in S : r <= q

Last(S) == CHOOSE r \in S : \A q \in S : r >= q

IdAt(r, column) == clean_id(Bdf.rows[r][ColIndex(Bdf.columns, column)])

\* the dataset has the primary columns and no informational-only ones
PrimaryOnly ==
    /\ HasCol(Bdf.columns, <<"C","a","m","p","a","i","g","n"," ","N","a","m","e">>) /\ HasCol(Bdf.columns, <<"C","a","m","p","a","i","g","n"," ","I","D">>)
    /\ HasCol(Bdf.columns, <<"A","d"," ","G","r","o","u","p"," ","N","a","m","e">>) /\ HasCol(Bdf.columns, AgIdCol(Bdf.columns))
    /\ InfoCol(Bdf, <<"c","a","m","p","a","i","g","n"," ","n","a","m","e"," ","(","i","n","f","o","r","m","a","t","i","o","n","a","l"," ","o","n","l","y",")">>) = None
    /\ InfoCol(Bdf, <<"a","d"," ","g","r","o","u","p"," ","n","a","m","e"," ","(","i","n","f","o","r","m","a","t","i","o","n","a","l"," ","o","n","l","y",")">>) = None

\* C19: when several rows of the bulk dataset have the same lower-cased, trimmed
\* campaign name (or campaign name and ad-group name) with different IDs, the
\* lookup enrich_with_ids builds maps the key to the ID of the first such row
C19_FirstRowWins ==
    (LookupsBuilt /\ PrimaryOnly) =>
        /\ \A k \in DOMAIN BuildLookups(bulk_df).cid :
              BuildLookups(bulk_df).cid[k] = IdAt(First(CampaignRowsOf(k)), <<"C","a","m","p","a","i","g","n"," ","I","D">>)
        /\ \A k \in DOMAIN BuildLookups(bulk_df).agid :
              BuildLookups(bulk_df).agid[k]
                  = IdAt(First(AdGroupRowsOf(k)), AgIdCol(Bdf.columns))

\* what does hold: the key is mapped to the ID of the last such row
C19_LastRowWins ==
    (LookupsBuilt /\ PrimaryOnly) =>
        /\ \A k \in DOMAIN BuildLookups(bulk_df).cid :
              BuildLookups(bulk_df).cid[k] = IdAt(Last(CampaignRowsOf(k)), <<"C","a","m","p","a","i","g","n"," ","I","D">>)
        /\ \A k \in DOMAIN BuildLookups(bulk_df).agid :
              BuildLookups(bulk_df).agid[k]
                  = IdAt(Last(AdGroupRowsOf(k)), AgIdCol(Bdf.columns))

(***************************************************************************)
(* C20                                                                     *)
(***************************************************************************)
\* the column the ad-group identifiers are to be read from, or None
ResolvedIdColumn ==
    IF HasCol(Bdf.columns, <<"A","d"," ","G","r","o","u","p"," ","I","D">>) THEN <<"A","d"," ","G","r","o","u","p"," ","I","D">>
    ELSE IF HasCol(Bdf.columns, <<"A","d"," ","G","r","o","u","p">>) /\ HasCol(Bdf.columns, <<"A","d"," ","G","r","o","u","p"," ","N","a","m","e">>)
         THEN <<"A","d"," ","G","r","o","u","p">>
         ELSE None

\* the identifiers in a column of the dataset
IdentifiersIn(column) ==
    {clean_id(Bdf.rows[r][ColIndex(Bdf.columns, column)]) : r \in 1..Len(Bdf.rows)} \ {None}

\* the keys of the rows that have both primary names and an identifier in the column
KeysWithId(column) ==
    IF HasCol(Bdf.columns, <<"C","a","m","p","a","i","g","n"," ","N","a","m","e">>) /\ HasCol(Bdf.columns, <<"A","d"," ","G","r","o","u","p"," ","N","a","m","e">>)
    THEN {<<NameKey(Bdf.rows[r][ColIndex(Bdf.columns, <<"C","a","m","p","a","i","g","n"," ","N","a","m","e">>)]),
            NameKey(Bdf.rows[r][ColIndex(Bdf.columns, <<"A","d"," ","G","r","o","u","p"," ","N","a","m","e">>)])>> :
            r \in {q \in 1..Len(Bdf.rows) :
                     /\ Bdf.rows[q][ColIndex(Bdf.columns, <<"C","a","m","p","a","i","g","n"," ","N","a","m","e">>)] # NaN
                     /\ Bdf.rows[q][ColIndex(Bdf.columns, <<"A","d"," ","G","r","o","u","p"," ","N","a","m","e">>)] # NaN
                     /\ Bdf.rows[q][ColIndex(Bdf.columns, column)] # NaN}}
    ELSE {}

\* the records the last call gave an ad_group_id
GotAdGroupId == {i \in 1..Len(items) : <<i, "ad_group_id">> \in assigned}

\* the lookup agid_map and the records are as they are when the identifiers
\* are read from the column, or from none
AdGroupIdsFrom(column, agid_map) ==
    IF column = None
    THEN /\ agid_map = EmptyMap
         /\ GotAdGroupId = {}
         /\ \A i \in 1..Len(items) : items[i].ad_group_id = before[i].ad_group_id
    ELSE /\ \A k \in DOMAIN agid_map : agid_map[k] \in IdentifiersIn(column)
         /\ KeysWithId(column) \subseteq DOMAIN agid_map
         /\ \A i \in GotAdGroupId : items[i].ad_group_id \in IdentifiersIn(column)

\* C20: enrich_with_ids reads the ad-group identifiers from the column "Ad Group
\* ID" when the dataset has it; otherwise from "Ad Group", but only when the
\* dataset has an "Ad Group Name" column too; otherwise it builds no ad-group
\* lookup and no record receives an ad_group_id.  With "Ad Group" and no "Ad
\* Group Name", "Ad Group" is never read as an identifier.
C20_AdGroupIdColumn ==
    LookupsBuilt => AdGroupIdsFrom(ResolvedIdColumn, BuildLookups(bulk_df).agid)

\* reached: the dataset has "Ad Group" beside "Ad Group Name" and no "Ad Group
\* ID", and a record got the identifier 222 from the column "Ad Group"
C20_Witness ==
    /\ LookupsBuilt /\ path = "ok"
    /\ ~HasCol(Bdf.columns, <<"A","d"," ","G","r","o","u","p"," ","I","D">>)
    /\ ResolvedIdColumn = <<"A","d"," ","G","r","o","u","p">>
    /\ \E i \in GotAdGroupId : items[i].ad_group_id = <<"2","2","2">> /\ before[i].ad_group_id = None

\* reached: the dataset has "Ad Group" as the name of the ad group, no "Ad Group
\* Name" and no "Ad Group ID"; a row has the names and the record's key, and
\* the record got no ad_group_id
C20_NoColumnReached ==
    /\ LookupsBuilt /\ path = "ok"
    /\ HasCol(Bdf.columns, <<"A","d"," ","G","r","o","u","p">>) /\ ResolvedIdColumn = None
    /\ \E r \in 1..Len(Bdf.rows), i \in 1..Len(items) :
          /\ Bdf.rows[r][ColIndex(Bdf.columns, <<"A","d"," ","G","r","o","u","p">>)] # NaN
          /\ NameKey(Bdf.rows[r][ColIndex(Bdf.columns, <<"A","d"," ","G","r","o","u","p">>)])
                 = NameKey(NameOf(items[i].ad_group_name))
          /\ items[i].ad_group_id = None

(***************************************************************************)
(* C21                                                                     *)
(***************************************************************************)
\* the positions of the headers that are "Ad Group" in any case, blanks ignored
AdGroupHeaders(columns) == {i \in 1..Len(columns) : normalized(columns[i]) = <<"a","d"," ","g","r","o","u","p">>}

\* the positions of the headers that are "Ad Group Name"
AdGroupNameHeaders(columns) == {i \in 1..Len(columns) : columns[i] = <<"A","d"," ","G","r","o","u","p"," ","N","a","m","e">>}

\* what process_search_term_report did to the headers `raw', giving `done'
AdGroupRenamedIfAlone(raw, done) ==
    LET aliased == normalize_columns(raw)
    IN  /\ Len(done) = Len(raw)
        /\ \A i \in AdGroupHeaders(raw) :
              /\ done[i] = <<"A","d"," ","G","r","o","u","p"," ","N","a","m","e">> <=> AdGroupNameHeaders(aliased) = {}
              /\ done[i] # <<"A","d"," ","G","r","o","u","p"," ","N","a","m","e">> => done[i] = raw[i]
        /\ (AdGroupHeaders(raw) # {} /\ AdGroupNameHeaders(aliased) # {})
              => Cardinality(AdGroupNameHeaders(done)) = 1

C21_BothKept ==
    /\ rule_pc = "processed"
    /\ AdGroupHeaders(df.columns) # {}
    /\ Cardinality(AdGroupNameHeaders(df.columns)) = 1
    /\ \E k \in 1..Len(df.rows) :
          /\ df.rows[k][ColIndex(df.columns, <<"A","d"," ","G","r","o","u","p"," ","N","a","m","e">>)] = <<"G","r","o","u","p"," ","O","n","e">>
          /\ \E i \in AdGroupHeaders(df.columns) : df.rows[k][i] = <<"A","G"," ","1">>

(***************************************************************************)
(* C22                                                                     *)
(***************************************************************************)
\* analyze_bleeding_spend returned records
BleedingReturned == rule_pc = "analyze_bleeding_spend" /\ ~result.raised

\* C22: every record analyze_bleeding_spend returns has the severity score
\* spend x clicks of its row (spend 20, clicks 8: 160) and the action
\* "Negative", and the records are in non-increasing order of severity
C22_SeverityOrder ==
    BleedingReturned =>
        /\ \A i \in 1..Len(result.records) :
              LET rec == result.records[i]
                  row == rec.id + 1
              IN  /\ rec.severity_score
                         = Cell(df, row, <<"S","p","e","n","d">>).v * Cell(df, row, <<"C","l","i","c","k","s">>).v
                  /\ rec.severity_score = rec.spend * rec.clicks
                  /\ (rec.spend = 2000 /\ rec.clicks = 8) => rec.severity_score = 16000
                  /\ rec.action_type = "Negative"
        /\ \A i, j \in 1..Len(result.records) :
              i < j => result.records[i].severity_score >= result.records[j].severity_score

\* reached: a row with spend 20 and 8 clicks came after a row with spend 10 and
\* 5 clicks in the report, and before it in the result, with severity 160
C22_Witness ==
    /\ BleedingReturned
    /\ Len(result.records) >= 2
    /\ result.records[1].spend = 2000 /\ result.records[1].clicks = 8
    /\ result.records[1].severity_score = 16000
    /\ result.records[2].severity_score = 5000
    /\ result.records[1].id > result.records[2].id

(***************************************************************************)
(* C23                                                                     *)
(***************************************************************************)
\* analyze_budget_saturation returned records
SaturationReturned == rule_pc = "analyze_budget_saturation" /\ ~result.raised

HealthComputed == rule_pc = "calculate_health_score" /\ ~result.details.empty

\* 0.4 x efficiency + 0.3 x exactShare + 0.3 x acosScore for the dataset
WeightedSum ==
    LET total_spend == ColumnSum(df, <<"S","p","e","n","d">>)
        waste == ShareOfSpend(WastedSpend(df), total_spend)
        efficiency == HundredLess(Quotient(100 * waste.num, waste.den))
        exactShare == ExactScore(ShareOfSpend(ExactSpend(df), total_spend))
        acosScore == HundredLess(OverallAcos(total_spend, ColumnSum(df, <<"S","a","l","e","s">>)))
    IN  Weighted(efficiency, exactShare, acosScore)

\* q rounded to the nearest integer, a half rounded up
RoundHalfUp(q) == (2 * q.num + q.den) \div (2 * q.den)

\* q without its fractional part
Floor(q) == q.num \div q.den

\* C24: the health score is round(0.4 x efficiency + 0.3 x exactShare + 0.3 x
\* acosScore): a weighted sum with a fractional part of one half or more is
\* rounded up, not truncated
C24_ScoreRounded == HealthComputed => result.score = RoundHalfUp(WeightedSum)

\* what does hold for a dataset without negative amounts: the score is the
\* weighted sum without its fractional part
C24_ScoreTruncated ==
    (HealthComputed /\ NonNegativeAmounts) => result.score = Floor(WeightedSum)

(***************************************************************************)
(* C25                                                                     *)
(***************************************************************************)
\* the columns process_search_term_report fills nulls in
NumericColumns ==
    { <<"I","m","p","r","e","s","s","i","o","n","s">>, <<"C","l","i","c","k","s">>, <<"S","p","e","n","d">>, <<"S","a","l","e","s">>, <<"O","r","d","e","r","s">>, <<"U","n","i","t","s">> }

\* the cells of the numeric columns of the processed report
NumericCells ==
    {df.rows[k][i] : k \in 1..Len(df.rows),
                     i \in {j \in 1..Len(df.columns) : df.columns[j] \in NumericColumns}}

\* C25: after process_search_term_report every value of the columns Impressions,
\* Clicks, Spend, Sales, Orders and Units is non-negative and never null,
\* whatever the cell was (a negative number, a negative numeric text); a
\* missing value has become 0
C25_NumericNonNegative ==
    rule_pc = "processed" => \A cell \in NumericCells : ~cell.nan /\ cell.v >= 0

\* what does hold: no value of these columns is null
C25_NumericNeverNull ==
    rule_pc = "processed" => \A cell \in NumericCells : ~cell.nan

(***************************************************************************)
(* C26                                                                     *)
(***************************************************************************)
\* the step leaves both dataset objects as they were, and a classifier that
\* ran before has returned what it returned the first time
InputsKept ==
    /\ df' = df
    /\ bulk_df' = bulk_df
    /\ rule_pc' \in Classifiers => previous'[rule_pc'] = <<result'>>

\* C26: the core does not change the datasets it is given: after a call of
\* normalize_columns, process_search_term_report, process_bulk_file,
\* enrich_with_ids or a classifier the performance and the bulk dataset have
\* the headers, rows and cells they had (enrich_with_ids changes the records
\* only), so a classifier returns the same whatever ran before it and however
\* often it runs
C26_InputsUnchanged == [][InputsKept]_vars

\* reached: process_search_term_report returned a cleaned dataset, and the
\* report it was given still has its text cells
C26_Witness ==
    /\ last_op = "process_search_term_report"
    /\ Len(df.rows) > 0
    /\ df \in FrameReports
    /\ Len(result.rows) = Len(df.rows)
    /\ ~Cell(result, 1, <<"S","p","e","n","d">>).nan

\* reached: each of the five classifiers has run, one of them again, on a
\* report for which they return records
C26_AllClassifiersRan ==
    /\ \A name \in Classifiers : previous[name] # <<>>
    /\ rule_pc = "analyze_bleeding_spend"
    /\ result.records # <<>>
    /\ previous["analyze_high_acos"][1].records # <<>>
    /\ previous["analyze_budget_saturation"][1].records # <<>>

\* reached: enrich_with_ids set an ID of a record
C26_RecordsEnriched == last_op = "enrich_with_ids" /\ assigned # {} /\ rule_pc = "raw"

(***************************************************************************)
(* C27                                                                     *)
(***************************************************************************)
\* the canonical names the alias table produces
CanonicalNames == {AliasTable[n] : n \in DOMAIN AliasTable}

\* the lower-cased form of the canonical name v is a key whose value is v
SelfMapped(v) == Lower(v) \in DOMAIN AliasTable /\ AliasTable[Lower(v)] = v

\* C27: normalize_columns is idempotent: every canonical name of the alias
\* table is mapped to itself, and normalizing the headers normalize_columns
\* returned changes none of them
C27_Idempotent ==
    /\ \A v \in CanonicalNames : SelfMapped(v)
    /\ norm_pc = "normalized" => normalize_columns(out_columns) = out_columns

\* reached: an alias in another spelling was renamed to its canonical name,
\* beside headers that are no alias
C27_Witness ==
    /\ norm_pc = "normalized"
    /\ out_columns[1] \in CanonicalNames
    /\ out_columns[1] # df_columns[1]
    /\ Lower(df_columns[1]) # Lower(out_columns[1])
    /\ normalized(df_columns[1]) # df_columns[1]
    /\ Len(out_columns) > 1

(***************************************************************************)
(* C28                                                                     *)
(***************************************************************************)
\* the record's field holds an ID
HoldsId(item, f) == item[f] # None /\ item[f] # <<>>

\* the three ID fields of every record
IdFields(its) ==
    Tuple([i \in 1..Len(its) |-> [f \in Range(InjectOrder) |-> its[i][f]]])

\* the step is a second call with the session's bulk dataset on the records
\* the first call with it left
SecondCall ==
    last_op = "enrich_with_ids" /\ last_op' = "enrich_with_ids" /\ calls' = calls + 1

\* a second call changes no ID and returns the same count; no call takes an
\* ID away
EnrichAgain ==
    /\ SecondCall => IdFields(items') = IdFields(items) /\ ret' = ret
    /\ \A i \in 1..Len(items) : \A f \in Range(InjectOrder) :
          HoldsId(items[i], f) => HoldsId(items'[i], f)

\* C28: enrich_with_ids is idempotent for a fixed bulk dataset: a second call
\* on the enriched records leaves every campaign_id, portfolio_id and
\* ad_group_id as it is and returns the same count; and no later call, with
\* whatever bulk dataset, removes an ID an earlier call attached
C28_EnrichIdempotent == [][EnrichAgain]_vars

\* reached: the second call with the same bulk dataset, on records the first
\* gave IDs, with a count above 0
C28_Witness ==
    /\ last_op = "enrich_with_ids" /\ calls = 2
    /\ ret > 0
    /\ items = before
    /\ \E i \in 1..Len(items) : HoldsId(items[i], "ad_group_id")

\* reached: a call with a bulk dataset that has no row for the record, after
\* a call that gave it its IDs
C28_KeptWithoutMatch ==
    /\ last_op = "enrich_with_other" /\ calls = 2
    /\ path = "ok" /\ assigned = {} /\ ret = 0
    /\ \E i \in 1..Len(items) :
          HoldsId(items[i], "campaign_id") /\ HoldsId(items[i], "ad_group_id")

\* reached: the second call ended with the exception the first ended with
C28_ErrorAgain ==
    last_op = "enrich_with_ids" /\ calls = 2 /\ path = "error" /\ items = before

(***************************************************************************)
(* C29                                                                     *)
(***************************************************************************)
\* the report and the budgets have the columns analyze_budget_saturation joins
Joinable ==
    /\ ~IsEmptyDf(df) /\ ~IsEmptyDf(bulk_df)
    /\ HasCol(df.columns, <<"C","a","m","p","a","i","g","n"," ","N","a","m","e">>)
    /\ HasCol(df.columns, <<"S","p","e","n","d">>) /\ HasCol(df.columns, <<"S","a","l","e","s">>)
    /\ HasCol(bulk_df.columns, <<"C","a","m","p","a","i","g","n"," ","N","a","m","e">>)
    /\ HasCol(bulk_df.columns, <<"D","a","i","l","y"," ","B","u","d","g","e","t">>)

\* the campaigns of the report whose summed sales are 0
UnsoldCampaigns ==
    {c \in {Cell(df, r, <<"C","a","m","p","a","i","g","n"," ","N","a","m","e">>) : r \in 1..Len(df.rows)} \ {NaN} :
        GroupSumFrom(df, c, <<"S","a","l","e","s">>, 1) = 0}

\* the budget rows of campaign c with a daily budget > 0
FundedRows(c) ==
    {k \in 1..Len(bulk_df.rows) :
        /\ Cell(bulk_df, k, <<"C","a","m","p","a","i","g","n"," ","N","a","m","e">>) = c
        /\ Cell(bulk_df, k, <<"D","a","i","l","y"," ","B","u","d","g","e","t">>) > 0}

\* record i recommends an increase of the budget of row k for campaign c, with
\* ACOS 0, and stands before every record with a positive ACOS
UnsoldFirst(c, k, i) ==
    /\ result.records[i].campaign_name = c
    /\ result.records[i].daily_budget = Cell(bulk_df, k, <<"D","a","i","l","y"," ","B","u","d","g","e","t">>)
    /\ result.records[i].spend = GroupSumFrom(df, c, <<"S","p","e","n","d">>, 1)
    /\ result.records[i].acos.num = 0
    /\ result.records[i].action_type = "Budget Increase"
    /\ \A j \in 1..Len(result.records) :
          RatLess(Rat(0, 1), result.records[j].acos) => i < j

ExportBody == SelectItems(request, sessions)

\* the body raised an HTTPException with status 400 or 404
ClientErrorRaised ==
    /\ export_pc = "post_negatives"
    /\ ExportBody.raised
    /\ ExportBody.exc.status_code \in {400, 404}

\* C30: an HTTP error raised inside export_negatives with status 400 ("No
\* valid items selected", "No items selected for export") or 404 ("Session
\* not found") reaches the client with that status code and detail, and is
\* not turned into a 500 "Export failed" response
C30_ClientErrorKept ==
    ClientErrorRaised =>
        /\ output.status_code = ExportBody.exc.status_code
        /\ output.detail = ExportBody.exc.detail

\* what the handler does with them: every one becomes a 500 response whose
\* detail starts with "Export failed: "
C30_ClientErrorBecomes500 ==
    ClientErrorRaised =>
        /\ output.status_code = 500
        /\ StartsWith(output.detail, <<"E","x","p","o","r","t"," ","f","a","i","l","e","d",":"," ">>)

\* reached: the session is unknown, and the client gets 500
C30_SessionNotFound500 ==
    /\ ClientErrorRaised
    /\ ExportBody.exc = HTTPException(404, <<"S","e","s","s","i","o","n"," ","n","o","t"," ","f","o","u","n","d">>)
    /\ output.status_code = 500
=============================================================================
